---- MODULE Spec2Model ----
(***************************************************************************)
(* Model of Karin's plugin update orchestration (src/unnamed/part_001):    *)
(* checkPkgUpdate, getPkgVersion, getRemotePkgVersion, updatePkg,          *)
(* updateAllPkg, checkGitPluginUpdate, getCommit, getHash, getTime,        *)
(* updateGitPlugin and updateAllGitPlugin.                                 *)
(*                                                                         *)
(* Text is a sequence of tokens (a JS string cut at the places the code    *)
(* looks at); two texts are the same JS string iff the sequences are       *)
(* equal.  The JS value `undefined` is the one-token text UNDEFINED.       *)
(* Logging (logger.info / logger.error and the `tips` array that is only   *)
(* logged) is left out: it never reaches a returned value.                 *)
(***************************************************************************)
EXTENDS Naturals, Integers, Sequences, FiniteSets, Bags, TLC

\* ------------------------------------------------------------------ bounds
\* the largest number of npm plugins the registry lists
MaxNpmPlugins == 1
\* the largest number of git plugins the registry lists
MaxGitPlugins == 2
\* the largest number of entries of a report handed to the sort
MaxEntries == 5

\* ------------------------------------------------------------- JS values
UNDEFINED == <<"<undefined>">>
EmptyStr == <<>>

\* JS truthiness of a string-or-undefined value
Truthy(s) == s # EmptyStr /\ s # UNDEFINED

\* `${s}` : template interpolation of a string-or-undefined value
Interp(s) == IF s = UNDEFINED THEN <<"undefined">> ELSE s

\* a || b
OrElse(a, b) == IF Truthy(a) THEN a ELSE b

\* String.prototype.includes for a marker that is a token of its own
Includes(s, marker) == \E i \in DOMAIN s : s[i] = marker

WhiteSpace == {" ", "\n"}

RECURSIVE TrimStart(_)
TrimStart(s) ==
  IF s # <<>> /\ Head(s) \in WhiteSpace THEN TrimStart(Tail(s)) ELSE s

RECURSIVE TrimEnd(_)
TrimEnd(s) ==
  IF s # <<>> /\ s[Len(s)] \in WhiteSpace
  THEN TrimEnd(SubSeq(s, 1, Len(s) - 1)) ELSE s

\* String.prototype.trim
Trim(s) == TrimEnd(TrimStart(s))

RECURSIVE Join(_, _)
\* Array.prototype.join
Join(arr, sep) ==
  IF arr = <<>> THEN <<>>
  ELSE IF Len(arr) = 1 THEN arr[1]
  ELSE arr[1] \o <<sep>> \o Join(Tail(arr), sep)

\* ------------------------------------------------------------ error values
\* the value null (a runner result without error, or a thrown null)
NullErr == [kind |-> "null", stack |-> <<>>, message |-> <<>>]
\* no error value at all (a field that is not set)
NoErr == [kind |-> "none", stack |-> <<>>, message |-> <<>>]
\* new Error(msg)
NewError(msg) == [kind |-> "Error", stack |-> <<"Error: ">> \o msg, message |-> msg]
\* the TypeError of reading a property of undefined or null
NewTypeError(msg) == [kind |-> "TypeError", stack |-> <<"TypeError: ">> \o msg, message |-> msg]
\* errors the command runner reports
ExecFailed == [kind |-> "ExecException", stack |-> <<"Error: ", "Command failed">>,
               message |-> <<"Command failed">>]
ExecEmpty == [kind |-> "ExecException", stack |-> <<"Error: ", "Command failed", "empty">>,
              message |-> <<"Command failed", "empty">>]
ExecExtraneous == [kind |-> "ExecException",
                   stack |-> <<"Error: ", "Command failed", "extraneous">>,
                   message |-> <<"Command failed", "extraneous">>]

\* result of a helper: returned a value or threw one
Returned(v) == [t |-> "ok", v |-> v, e |-> NoErr, via |-> "runner"]
Threw(e) == [t |-> "throw", v |-> EmptyStr, e |-> e, via |-> "runner"]

\* --------------------------------------------------------- command runner
\* exec(cmd, options) -> {status, stdout, stderr, error}
ExecResult(st, out, err) == [status |-> st, stdout |-> out, error |-> err]

\* every combination of status and error the contract allows
RunnerResults(outs) ==
  {ExecResult(st, out, err) : st \in BOOLEAN, out \in outs, err \in {NullErr, ExecFailed, ExecEmpty, ExecExtraneous}}

\* --------------------------------------------------------------- packages
AllNames == <<"a", "b", "c", "d", "e", "f">>
HostName == "node-karin"
GitNames == {AllNames[i] : i \in 1..MaxGitPlugins}
PkgNames == {AllNames[i] : i \in 1..MaxNpmPlugins} \cup {HostName}

\* the tokens \d+\.\d+\.\d+ matches
SemverTokens == {"1.0.0", "1.0.1"}

\* package.json: each of dependencies, devDependencies and peerDependencies
\* is absent or maps every package name to its declared text (UNDEFINED for
\* a name the map does not hold)
Absent == <<"<absent>">>
ConstMap(v) == [n \in PkgNames |-> v]
DeclOf(m, name) == IF m = Absent THEN UNDEFINED ELSE m[name]
Manifest(d, v, p) == [dependencies |-> d, devDependencies |-> v, peerDependencies |-> p]
\* manifests on disk before an update: the repository's own shape (no
\* dependencies map), one that declares everything, one that declares
\* nothing in dependencies
InitialManifests ==
  { Manifest(Absent, Absent, ConstMap(<<"workspace:*">>)),
    Manifest(ConstMap(<<"1.0.0">>), Absent, Absent),
    Manifest(ConstMap(UNDEFINED), ConstMap(<<"1.0.1">>), Absent) }
\* manifests an upgrade command can leave on disk
UpdatedManifests ==
  { Manifest(d, vp[1], vp[2]) :
      d \in {Absent} \cup [PkgNames -> {UNDEFINED, <<"1.0.1">>}],
      vp \in { <<Absent, Absent>>, <<Absent, ConstMap(<<"1.0.1">>)>>,
               <<ConstMap(<<"1.0.0">>), ConstMap(<<"1.0.1">>)>> } }

\* requireFile('package.json', { force }) on the manifest on disk
getPkg(file) == file

\* pkg?.dependencies?.[name] || pkg?.devDependencies?.[name] || pkg?.peerDependencies?.[name]
\* variant: devDependencies is looked at before dependencies
M_DeclaredVersion(pkg, name) ==
  OrElse(OrElse(DeclOf(pkg.devDependencies, name), DeclOf(pkg.dependencies, name)),
         DeclOf(pkg.peerDependencies, name))

DeclaredVersion(pkg, name) ==
  OrElse(OrElse(DeclOf(pkg.dependencies, name), DeclOf(pkg.devDependencies, name)),
         DeclOf(pkg.peerDependencies, name))

\* ---------------------------------------------------- npm command texts
ListCmd(name) == <<"npm list ", name, " --depth=0">>
ShowCmd(name, tag) ==
  IF tag = "latest" THEN <<"npm show ", name, " version">>
  ELSE <<"npm show ", name, " dist-tags.", tag>>
\* `${name}@${remote}`
PkgAt(name, remote) == <<name, "@">> \o Interp(remote)
UpCmd(name, remote) == <<"pnpm up", " ">> \o PkgAt(name, remote)

\* what `npm list <name> --depth=0` can print
ListOuts(name) ==
  { <<>>,
    <<"proj@0.0.1 /srv", "\n", name, "@", "1.0.0">>,
    <<"proj@0.0.1 /srv", "\n", name, "@", "1.0.1">>,
    <<"proj@0.0.1 /srv", "\n", name, "@", "1.0.1", "-beta">>,
    <<"proj@0.0.1 /srv", "\n", name, "@", "link:../x">>,
    <<"proj@0.0.1 /srv", "\n", name, "@", " ", "extraneous">>,
    <<"proj@0.0.1 /srv", "\n", "(", "empty", ")">> }
\* what `npm show <name> version` can print
ShowOuts == { <<>>, <<"1.0.0", "\n">>, <<"1.0.1", "\n">>, <<" ", "1.0.1">> }

\* --------------------------------------------------------- version resolver
\* new Error(`获取失败，${name} 未安装`)
NotInstalled(name) == NewError(<<"fetch failed, ", name, " not installed">>)

\* variant: only the 'empty' marker is looked for
M_HasAbsentMarker(text) == Includes(text, "empty")
HasAbsentMarker(text) == Includes(text, "empty") \/ Includes(text, "extraneous")

\* new RegExp(`${name}@(\\d+\\.\\d+\\.\\d+)`, 'gm').exec(data)?.[1]
RegMatches(name, data) ==
  {i \in 1..(Len(data) - 2) :
     data[i] = name /\ data[i + 1] = "@" /\ data[i + 2] \in SemverTokens}
RegExec(name, data) ==
  IF RegMatches(name, data) = {} THEN UNDEFINED
  ELSE LET i == CHOOSE j \in RegMatches(name, data) :
                  \A k \in RegMatches(name, data) : j <= k
       IN <<data[i + 2]>>

getPkgVersion(name, r, file) ==
  IF Truthy(r.stdout) /\ HasAbsentMarker(r.stdout) THEN Threw(NotInstalled(name))
  ELSE IF Truthy(r.stdout) /\ Truthy(RegExec(name, r.stdout))
       THEN Returned(RegExec(name, r.stdout))
  ELSE IF r.error # NullErr
       THEN IF HasAbsentMarker(r.error.stack) THEN Threw(NotInstalled(name))
            ELSE Threw(r.error)
  ELSE [Returned(DeclaredVersion(getPkg(file), name)) EXCEPT !.via = "manifest"]

\* variant: failure is keyed on the error, as in getPkgVersion
M_getRemotePkgVersion(name, r) ==
  IF r.error # NullErr
  THEN IF HasAbsentMarker(r.error.stack)
       THEN Threw(NotInstalled(name))
       ELSE Threw(r.error)
  ELSE Returned(Trim(r.stdout))

getRemotePkgVersion(name, r) ==
  IF ~r.status
  THEN IF r.error # NullErr /\ HasAbsentMarker(r.error.stack)
       THEN Threw(NotInstalled(name))
       ELSE Threw(r.error)
  ELSE Returned(Trim(r.stdout))

\* ------------------------------------------------------------ report texts
\* the marker 成功 is the token "success", the marker 失败 the token "failed"
\* `[${name}][无更新] ${local} => ${remote}`
NoUpdateMsg(name, local, remote) ==
  <<"[", name, "]", "[no update] ">> \o Interp(local) \o <<" => ">> \o Interp(remote)
\* `[${name}][更新失败] 请尝试手动更新 pnpm up ${name}@${remote}`
ManualHint(name, remote) ==
  <<"[", name, "]", "[update ", "failed", "] ", "try a manual update ">> \o UpCmd(name, remote)
\* `[${name}][更新成功] ${local} => ${remote}`
SuccessMsg(name, local, remote) ==
  <<"[", name, "]", "[update ", "success", "] ">> \o Interp(local) \o <<" => ">> \o Interp(remote)
\* `[更新失败] 更新数量: ${result.length}`
FailedHeader(n) == <<"[update ", "failed", "] ", "count: ", ToString(n)>>
\* '没有可更新的插件~'
NothingToUpdate == <<"no plugin to update~">>
\* '更新失败，请查看日志'
SeeLogs == <<"update failed, see the log">>

\* -------------------------------------------------------- returned values
RetBase ==
  [status |-> "", local |-> UNDEFINED, remote |-> UNDEFINED, data |-> UNDEFINED,
   dataErr |-> NoErr, error |-> NoErr, count |-> 0, commit |-> UNDEFINED]
NoRet == [RetBase EXCEPT !.status = "<pending>"]
\* a batch operation's text report
TextRet(text) == [RetBase EXCEPT !.status = "text", !.data = text]

\* ------------------------------------------------------------------ state
VARIABLES
  op,        \* the entry point that was called ("idle" before the call)
  mpc,       \* where the entry point's own control is
  ret,       \* the value the entry point returned
  escaped,   \* the value the entry point's promise rejected with
  pkgFile,   \* package.json on disk
  pkg,       \* updateAllPkg: const pkg = await getPkg()
  cmd,       \* updateAllPkg: const cmd = ['pnpm up']
  state,     \* updateAllPkg: const state (keys in insertion order)
  result,    \* updateAllPkg / updateAllGitPlugin: const result
  batchError, \* updateAllPkg: const { error } = await exec(shell)
  updatedPkg, \* updateAllPkg: what getPkg(true) returned, <<>> while not called
  calls,     \* bag of the commands passed to exec
  tasks,     \* the running async callbacks / invocations
  kinds,     \* what each plugin path is on disk
  head       \* HEAD of each plugin's repository

vars == <<op, mpc, ret, escaped, pkgFile, pkg, cmd, state, result, batchError, updatedPkg,
          calls, tasks, kinds, head>>

\* exec without a cwd option
NoCwd == <<>>
Call(c, cwd) == SetToBag({[cmd |-> c, cwd |-> cwd]})
Calls(c, cwd) == CopiesIn([cmd |-> c, cwd |-> cwd], calls)


NewTask(fn, name, tag) ==
  [fn |-> fn, pc |-> "local", name |-> name, tag |-> tag,
   branch |-> UNDEFINED, short |-> TRUE, moved |-> FALSE, run |-> ExecResult(TRUE, <<>>, NoErr),
   local |-> UNDEFINED, remote |-> UNDEFINED, updated |-> UNDEFINED,
   hash |-> UNDEFINED, updatedHash |-> UNDEFINED, status |-> EmptyStr,
   gcmd |-> EmptyStr, logs |-> 0, count |-> 0, step |-> "called", via |-> "",
   timer |-> "none", thrown |-> NoErr, error |-> NoErr, res |-> NoRet]

NoManifest == Manifest(Absent, Absent, Absent)

Init ==
  /\ op = "idle"
  /\ mpc = "idle"
  /\ ret = NoRet
  /\ escaped = NoErr
  /\ pkgFile = NoManifest
  /\ pkg = NoManifest
  /\ cmd = <<>>
  /\ state = <<>>
  /\ result = <<>>
  /\ batchError = NoErr
  /\ updatedPkg = <<>>
  /\ calls = EmptyBag
  /\ tasks = <<>>
  /\ kinds = [n \in GitNames |-> "missing"]
  /\ head = [n \in GitNames |-> "h0"]

\* the entry point returns v
Return(v) == mpc' = "returned" /\ ret' = v /\ escaped' = NoErr
\* the entry point's promise rejects with e
Escape(e) == mpc' = "rejected" /\ ret' = NoRet /\ escaped' = e

gitUnchanged == UNCHANGED <<kinds, head>>
batchUnchanged == UNCHANGED <<pkg, cmd, state, result, batchError, updatedPkg>>

\* ---------------------------------------------------------- checkPkgUpdate
\* variant: the comparison inverted
M_checkPkgUpdateResult(local, remote) ==
  IF local # remote THEN [RetBase EXCEPT !.status = "no", !.local = local]
  ELSE [RetBase EXCEPT !.status = "yes", !.local = local, !.remote = remote]

\* lines 42-43
checkPkgUpdateResult(local, remote) ==
  IF local = remote THEN [RetBase EXCEPT !.status = "no", !.local = local]
  ELSE [RetBase EXCEPT !.status = "yes", !.local = local, !.remote = remote]

\* variant: the caught value is replaced by a fresh error
M_checkPkgUpdateCatch(e) ==
  [RetBase EXCEPT !.status = "error", !.error = NewError(<<"check failed">>)]

\* catch (lines 44-47)
checkPkgUpdateCatch(e) == [RetBase EXCEPT !.status = "error", !.error = e]

CallCheckPkgUpdate ==
  /\ op = "idle"
  /\ \E name \in PkgNames, f \in InitialManifests :
       /\ op' = "checkPkgUpdate"
       /\ mpc' = "running"
       /\ pkgFile' = f
       /\ tasks' = <<NewTask("checkPkgUpdate", name, "latest")>>
       /\ calls' = calls (+) Call(ListCmd(name), NoCwd)
  /\ UNCHANGED <<ret, escaped>>
  /\ batchUnchanged /\ gitUnchanged

CheckPkgUpdateLocal ==
  /\ op = "checkPkgUpdate" /\ tasks[1].pc = "local"
  /\ LET t == tasks[1] IN
     \E r \in RunnerResults(ListOuts(t.name)) :
       LET o == getPkgVersion(t.name, r, pkgFile) IN
       IF o.t = "throw"
       THEN /\ tasks' = <<[t EXCEPT !.pc = "done", !.thrown = o.e]>>
            /\ Return(checkPkgUpdateCatch(o.e))
            /\ UNCHANGED calls
       ELSE /\ tasks' = <<[t EXCEPT !.pc = "remote", !.local = o.v, !.step = "local", !.via = o.via]>>
            /\ calls' = calls (+) Call(ShowCmd(t.name, t.tag), NoCwd)
            /\ UNCHANGED <<mpc, ret, escaped>>
  /\ UNCHANGED <<op, pkgFile>>
  /\ batchUnchanged /\ gitUnchanged

CheckPkgUpdateRemote ==
  /\ op = "checkPkgUpdate" /\ tasks[1].pc = "remote"
  /\ LET t == tasks[1] IN
     \E r \in RunnerResults(ShowOuts) :
       LET o == getRemotePkgVersion(t.name, r) IN
       IF o.t = "throw"
       THEN /\ tasks' = <<[t EXCEPT !.pc = "done", !.thrown = o.e]>>
            /\ Return(checkPkgUpdateCatch(o.e))
       ELSE /\ tasks' = <<[t EXCEPT !.pc = "done", !.remote = o.v, !.step = "remote"]>>
            /\ Return(checkPkgUpdateResult(t.local, o.v))
  /\ UNCHANGED <<op, pkgFile, calls>>
  /\ batchUnchanged /\ gitUnchanged

\* --------------------------------------------------------------- updatePkg
\* catch (lines 138-141)
updatePkgCatch(e) == [RetBase EXCEPT !.status = "failed", !.dataErr = e]

\* variant: no early return for an up-to-date package
M_updatePkgNoUpdate(local, remote) == local = remote /\ local # local

\* line 122
updatePkgNoUpdate(local, remote) == local = remote

\* variant: the upgrade command's exit is trusted, no comparison
M_updatePkgVerify(name, local, remote, updatedVersion) ==
  [RetBase EXCEPT !.status = "ok", !.data = SuccessMsg(name, local, remote),
                  !.local = local, !.remote = remote]

\* lines 133-137
updatePkgVerify(name, local, remote, updatedVersion) ==
  IF updatedVersion # remote
  THEN [RetBase EXCEPT !.status = "failed", !.data = ManualHint(name, remote)]
  ELSE [RetBase EXCEPT !.status = "ok", !.data = SuccessMsg(name, local, remote),
                       !.local = local, !.remote = remote]

CallUpdatePkg ==
  /\ op = "idle"
  /\ \E name \in PkgNames, tag \in {"latest", "beta"}, f \in InitialManifests :
       /\ op' = "updatePkg"
       /\ mpc' = "running"
       /\ pkgFile' = f
       /\ tasks' = <<NewTask("updatePkg", name, tag)>>
       /\ calls' = calls (+) Call(ListCmd(name), NoCwd)
  /\ UNCHANGED <<ret, escaped>>
  /\ batchUnchanged /\ gitUnchanged

UpdatePkgLocal ==
  /\ op = "updatePkg" /\ tasks[1].pc = "local"
  /\ LET t == tasks[1] IN
     \E r \in RunnerResults(ListOuts(t.name)) :
       LET o == getPkgVersion(t.name, r, pkgFile) IN
       IF o.t = "throw"
       THEN /\ tasks' = <<[t EXCEPT !.pc = "done", !.thrown = o.e]>>
            /\ Return(updatePkgCatch(o.e))
            /\ UNCHANGED calls
       ELSE /\ tasks' = <<[t EXCEPT !.pc = "remote", !.local = o.v, !.step = "local", !.via = o.via]>>
            /\ calls' = calls (+) Call(ShowCmd(t.name, t.tag), NoCwd)
            /\ UNCHANGED <<mpc, ret, escaped>>
  /\ UNCHANGED <<op, pkgFile>>
  /\ batchUnchanged /\ gitUnchanged

UpdatePkgRemote ==
  /\ op = "updatePkg" /\ tasks[1].pc = "remote"
  /\ LET t == tasks[1] IN
     \E r \in RunnerResults(ShowOuts) :
       LET o == getRemotePkgVersion(t.name, r) IN
       IF o.t = "throw"
       THEN /\ tasks' = <<[t EXCEPT !.pc = "done", !.thrown = o.e]>>
            /\ Return(updatePkgCatch(o.e))
            /\ UNCHANGED calls
       ELSE IF updatePkgNoUpdate(t.local, o.v)
       THEN /\ tasks' = <<[t EXCEPT !.pc = "done", !.remote = o.v, !.step = "remote"]>>
            /\ Return([RetBase EXCEPT !.status = "failed",
                                      !.data = NoUpdateMsg(t.name, t.local, o.v)])
            /\ UNCHANGED calls
       ELSE /\ tasks' = <<[t EXCEPT !.pc = "upgrade", !.remote = o.v, !.step = "remote"]>>
            /\ calls' = calls (+) Call(UpCmd(t.name, o.v), NoCwd)
            /\ UNCHANGED <<mpc, ret, escaped>>
  /\ UNCHANGED <<op, pkgFile>>
  /\ batchUnchanged /\ gitUnchanged

\* variant: the error of the upgrade command is not looked at
M_UpgradeFailed(error) == error # error

\* line 128: if (error)
UpgradeFailed(error) == error # NullErr

\* the upgrade command completes (lines 127-132); it may rewrite package.json
UpdatePkgUpgrade ==
  /\ op = "updatePkg" /\ tasks[1].pc = "upgrade"
  /\ LET t == tasks[1] IN
     \E r \in RunnerResults({<<>>}), f \in {pkgFile} \cup UpdatedManifests :
       /\ pkgFile' = f
       /\ IF UpgradeFailed(r.error)
          THEN /\ tasks' = <<[t EXCEPT !.pc = "done", !.step = "upgrade failed",
                                       !.error = r.error]>>
               /\ Return([RetBase EXCEPT !.status = "failed", !.dataErr = r.error])
               /\ UNCHANGED calls
          ELSE /\ tasks' = <<[t EXCEPT !.pc = "reresolve", !.step = "upgraded",
                                       !.error = r.error]>>
               /\ calls' = calls (+) Call(ListCmd(t.name), NoCwd)
               /\ UNCHANGED <<mpc, ret, escaped>>
  /\ UNCHANGED op
  /\ batchUnchanged /\ gitUnchanged

UpdatePkgReresolve ==
  /\ op = "updatePkg" /\ tasks[1].pc = "reresolve"
  /\ LET t == tasks[1] IN
     \E r \in RunnerResults(ListOuts(t.name)) :
       LET o == getPkgVersion(t.name, r, pkgFile) IN
       IF o.t = "throw"
       THEN /\ tasks' = <<[t EXCEPT !.pc = "done", !.thrown = o.e]>>
            /\ Return(updatePkgCatch(o.e))
       ELSE /\ tasks' = <<[t EXCEPT !.pc = "done", !.updated = o.v, !.step = "reresolved"]>>
            /\ Return(updatePkgVerify(t.name, t.local, t.remote, o.v))
  /\ UNCHANGED <<op, pkgFile, calls>>
  /\ batchUnchanged /\ gitUnchanged

\* ------------------------------------------------------------ updateAllPkg
\* name.replace(tag, ''): drops the first occurrence of the tag
RECURSIVE Replace(_, _)
Replace(id, tag) ==
  IF id = <<>> THEN <<>>
  ELSE IF Head(id) = tag THEN Tail(id)
  ELSE <<Head(id)>> \o Replace(Tail(id), tag)

\* the bare name of a listed identifier
BareName(id, tag) == Replace(id, tag)[1]

\* getPlugins('npm', false): the listed npm plugins, with or without prefix
Listing(k, prefix, tag) ==
  [i \in 1..k |-> IF prefix THEN <<tag, AllNames[i]>> ELSE <<AllNames[i]>>]

\* variant: the two return values swapped
M_SortCompare(a, b) == IF Includes(a, "success") THEN 1 ELSE -1

\* (a) => a.includes('成功') ? -1 : 1   (line 216; the second argument is unused)
SortCompare(a, b) == IF Includes(a, "success") THEN -1 ELSE 1

\* Array.prototype.sort as V8 runs it on fewer than 64 elements: the first
\* run is counted (and reversed when descending), the rest is put in place by
\* binary insertion
RECURSIVE RunEnd(_, _, _)
RunEnd(arr, desc, idx) ==
  IF idx > Len(arr) THEN idx - 1
  ELSE LET order == SortCompare(arr[idx], arr[idx - 1]) IN
       IF (desc /\ order >= 0) \/ (~desc /\ order < 0) THEN idx - 1
       ELSE RunEnd(arr, desc, idx + 1)


RECURSIVE InsertionPoint(_, _, _, _)
InsertionPoint(arr, pivot, left, right) ==
  IF left >= right THEN left
  ELSE LET mid == left + ((right - left) \div 2) IN
       IF SortCompare(pivot, arr[mid]) < 0 THEN InsertionPoint(arr, pivot, left, mid)
       ELSE InsertionPoint(arr, pivot, mid + 1, right)

RECURSIVE BinaryInsertionSort(_, _)
BinaryInsertionSort(arr, start) ==
  IF start > Len(arr) THEN arr
  ELSE LET pivot == arr[start]
           left == InsertionPoint(arr, pivot, 1, start)
       IN BinaryInsertionSort(
            SubSeq(arr, 1, left - 1) \o <<pivot>> \o SubSeq(arr, left, start - 1)
              \o SubSeq(arr, start + 1, Len(arr)),
            start + 1)

ArraySort(arr) ==
  IF Len(arr) < 2 THEN arr
  ELSE LET desc == SortCompare(arr[2], arr[1]) < 0
           run == RunEnd(arr, desc, 3)
           made == IF desc THEN [i \in 1..run |-> arr[run + 1 - i]] \o SubSeq(arr, run + 1, Len(arr))
                   ELSE arr
       IN BinaryInsertionSort(made, run + 1)

\* variant: the header counts itself among the entries
M_BatchFailedReport(st) ==
  LET lines == [i \in DOMAIN st |-> ManualHint(st[i].name, st[i].remote)]
  IN <<FailedHeader(Len(lines) + 1)>> \o lines

\* lines 194-198: the batch command reported an error
BatchFailedReport(st) ==
  LET lines == [i \in DOMAIN st |-> ManualHint(st[i].name, st[i].remote)]
  IN <<FailedHeader(Len(lines))>> \o lines

\* variant: the re-read version is compared with the old local version
M_BatchEntry(e, reread) ==
  IF DeclaredVersion(reread, e.name) # e.local THEN ManualHint(e.name, e.remote)
  ELSE SuccessMsg(e.name, e.local, e.remote)

\* lines 206-213: one entry per planned package, judged on the re-read manifest
BatchEntry(e, reread) ==
  IF DeclaredVersion(reread, e.name) # e.remote THEN ManualHint(e.name, e.remote)
  ELSE SuccessMsg(e.name, e.local, e.remote)

BatchReport(st, reread) ==
  ArraySort([i \in DOMAIN st |-> BatchEntry(st[i], reread)])


CallUpdateAllPkg ==
  /\ op = "idle"
  /\ \E k \in 0..MaxNpmPlugins, prefix \in BOOLEAN, f \in InitialManifests :
       LET list == Append(Listing(k, prefix, "npm:"), <<HostName>>) IN
       /\ op' = "updateAllPkg"
       /\ mpc' = "waiting"
       /\ pkgFile' = f
       /\ pkg' = getPkg(f)
       /\ cmd' = << <<"pnpm up">> >>
       /\ tasks' = [i \in DOMAIN list |->
                      NewTask("updateAllPkg", BareName(list[i], "npm:"), "latest")]
       /\ calls' = calls (+)
            BagUnion({Call(ListCmd(BareName(list[i], "npm:")), NoCwd) : i \in DOMAIN list})
  /\ UNCHANGED <<ret, escaped, state, result, batchError, updatedPkg>>
  /\ gitUnchanged

\* variant: a rejected callback is swallowed, the aggregate wait does not end
M_AllPkgRejected(e) == UNCHANGED <<mpc, ret, escaped>>

\* a callback of the Promise.all rejects with e: the first rejection takes
\* updateAllPkg to its catch block (lines 219-222), later ones are dropped;
\* the catch reads (error as Error).message || '更新失败，请查看日志', which
\* throws on a null
AllPkgRejected(e) ==
  IF mpc = "waiting"
  THEN IF e.kind = "null"
       THEN Escape(NewTypeError(<<"Cannot read properties of null (reading 'message')">>))
       ELSE Return(TextRet(OrElse(e.message, SeeLogs)))
  ELSE UNCHANGED <<mpc, ret, escaped>>

\* variant: the test forgets the leading 'pnpm up' element
M_NothingOutdated(c) == Len(c) = 0

\* line 179: cmd still holds only 'pnpm up'
NothingOutdated(c) == Len(c) = 1

\* variant: the batch step does not wait for the other callbacks
M_AllPkgSettled(newTasks, newCmd, extra) ==
  IF mpc = "waiting"
  THEN IF NothingOutdated(newCmd)
       THEN /\ Return(TextRet(NothingToUpdate))
            /\ calls' = calls (+) extra
       ELSE /\ mpc' = "batch"
            /\ calls' = calls (+) extra (+) Call(Join(newCmd, " "), NoCwd)
            /\ UNCHANGED <<ret, escaped>>
  ELSE /\ UNCHANGED <<mpc, ret, escaped>>
       /\ calls' = calls (+) extra

\* lines 179-192, run when the last callback of the Promise.all has fulfilled
AllPkgSettled(newTasks, newCmd, extra) ==
  IF mpc = "waiting" /\ \A j \in DOMAIN newTasks : newTasks[j].pc = "done"
  THEN IF NothingOutdated(newCmd)
       THEN /\ Return(TextRet(NothingToUpdate))
            /\ calls' = calls (+) extra
       ELSE /\ mpc' = "batch"
            /\ calls' = calls (+) extra (+) Call(Join(newCmd, " "), NoCwd)
            /\ UNCHANGED <<ret, escaped>>
  ELSE /\ UNCHANGED <<mpc, ret, escaped>>
       /\ calls' = calls (+) extra

UpdateAllPkgLocal(i) ==
  /\ op = "updateAllPkg" /\ i \in DOMAIN tasks /\ tasks[i].pc = "local"
  /\ LET t == tasks[i] IN
     \E r \in RunnerResults(ListOuts(t.name)) :
       LET o == getPkgVersion(t.name, r, pkgFile) IN
       IF o.t = "throw"
       THEN /\ tasks' = [tasks EXCEPT ![i] = [t EXCEPT !.pc = "rejected", !.thrown = o.e]]
            /\ AllPkgRejected(o.e)
            /\ UNCHANGED calls
       ELSE /\ tasks' = [tasks EXCEPT ![i] = [t EXCEPT !.pc = "remote", !.local = o.v, !.step = "local", !.via = o.via]]
            /\ calls' = calls (+) Call(ShowCmd(t.name, t.tag), NoCwd)
            /\ UNCHANGED <<mpc, ret, escaped>>
  /\ UNCHANGED <<op, pkgFile, pkg, cmd, state, result, batchError, updatedPkg>>
  /\ gitUnchanged

UpdateAllPkgRemote(i) ==
  /\ op = "updateAllPkg" /\ i \in DOMAIN tasks /\ tasks[i].pc = "remote"
  /\ LET t == tasks[i] IN
     \E r \in RunnerResults(ShowOuts) :
       LET o == getRemotePkgVersion(t.name, r)
           \* line 167: await getRemotePkgVersion(name) || pkg.dependencies[name]
           q == IF o.t = "throw" \/ Truthy(o.v) THEN o
                ELSE IF pkg.dependencies = Absent
                     THEN Threw(NewTypeError(<<"Cannot read properties of undefined">>))
                     ELSE Returned(pkg.dependencies[t.name])
       IN
       IF q.t = "throw"
       THEN /\ tasks' = [tasks EXCEPT ![i] = [t EXCEPT !.pc = "rejected", !.thrown = q.e]]
            /\ AllPkgRejected(q.e)
            /\ UNCHANGED <<calls, cmd, state>>
       ELSE LET done == [tasks EXCEPT ![i] = [t EXCEPT !.pc = "done", !.remote = q.v, !.step = "remote"]]
                newCmd == IF t.local = q.v THEN cmd ELSE Append(cmd, PkgAt(t.name, q.v))
                entry == [name |-> t.name, local |-> t.local, remote |-> q.v]
            IN /\ tasks' = done
               /\ cmd' = newCmd
               \* state[name] = { local, remote }: a new key goes last, an old
               \* key keeps its place
               /\ state' = IF t.local = q.v THEN state
                           ELSE IF \E k \in DOMAIN state : state[k].name = t.name
                           THEN [k \in DOMAIN state |->
                                   IF state[k].name = t.name THEN entry ELSE state[k]]
                           ELSE Append(state, entry)
               /\ AllPkgSettled(done, newCmd, EmptyBag)
  /\ UNCHANGED <<op, pkgFile, pkg, result, batchError, updatedPkg>>
  /\ gitUnchanged

\* the batch command completes (lines 192-218); on the error branch the
\* manifest is not read again
UpdateAllPkgBatch ==
  /\ op = "updateAllPkg" /\ mpc = "batch"
  /\ \E r \in RunnerResults({<<>>}), f \in {pkgFile} \cup UpdatedManifests :
       /\ pkgFile' = f
       /\ batchError' = r.error
       /\ IF r.error # NullErr   \* line 193: if (error)
          THEN /\ result' = BatchFailedReport(state)
               /\ updatedPkg' = <<>>
               /\ Return(TextRet(Join(BatchFailedReport(state), "\n")))
          ELSE /\ result' = BatchReport(state, getPkg(f))
               /\ updatedPkg' = <<getPkg(f)>>
               /\ Return(TextRet(Join(BatchReport(state, getPkg(f)), "\n")))
  /\ UNCHANGED <<op, pkg, cmd, state, calls, tasks>>
  /\ gitUnchanged

\* ------------------------------------------------------------ git helpers
\* default of the `time` parameter (seconds)
TimeoutSeconds == 120

PluginPath(name) == <<"./plugins/", name>>
FetchCmd == <<"git fetch origin">>
StatusCmd == <<"git status -uno">>
HashCmd(short) == IF short THEN <<"git rev-parse --short HEAD">> ELSE <<"git rev-parse HEAD">>
TimeCmd == <<"git log -1 --format=%cd --date=format:%Y-%m-%d %H:%M:%S">>
DefaultGitCmd == <<"git pull">>
GitCmds == {DefaultGitCmd, EmptyStr}

\* the three command texts of getCommit (lines 306, 308, 310)
LogLast(count) == <<"git log -", ToString(count), " --format=[%ad]%s">>
LogSince(hash) == <<"git log ">> \o hash \o <<"..HEAD", " --format=[%ad] %s">>
LogOfBranch(count, branch) ==
  <<"git log -", ToString(count), " ">> \o branch \o <<" --format=[%ad] %s">>

\* variant: the two tests chained with else, the hash first
M_getCommitCmd(count, hash, branch) ==
  IF Truthy(hash) THEN <<"git log ">> \o hash \o <<"..HEAD", " --format=[%ad] %s">>
  ELSE IF Truthy(branch)
       THEN <<"git log -", ToString(count), " ">> \o branch \o <<" --format=[%ad] %s">>
       ELSE <<"git log -", ToString(count), " --format=[%ad]%s">>

\* getCommit, lines 305-310: the command it builds
getCommitCmd(count, hash, branch) ==
  LET c0 == <<"git log -", ToString(count), " --format=[%ad]%s">>
      c1 == IF Truthy(hash) THEN <<"git log ">> \o hash \o <<"..HEAD", " --format=[%ad] %s">>
            ELSE c0
  IN IF Truthy(branch)
     THEN <<"git log -", ToString(count), " ">> \o branch \o <<" --format=[%ad] %s">>
     ELSE c1

\* getCommit, lines 311-316: what it does with the runner's result
getCommit(r) == IF r.error # NullErr THEN Threw(r.error) ELSE Returned(r.stdout)

\* getHash, lines 326-330
getHash(r) == IF r.error # NullErr THEN Threw(r.error) ELSE Returned(r.stdout)

\* '获取最后一次提交时间失败，请重试或更新Git~'
TimeFailedMsg == <<"could not get the last commit time, retry or update Git~">>
\* variant: the runner's error is not looked at
M_getTime(r) == r.stdout
\* getTime, lines 345-347
getTime(r) == IF r.error # NullErr THEN TimeFailedMsg ELSE r.stdout

\* results of a git command
GitResults(outs) ==
  {ExecResult(st, out, err) : st \in BOOLEAN, out \in outs, err \in {NullErr, ExecFailed}}

Hashes == {"h0", "h1"}
Kinds == {"missing", "nogit", "repo"}
CommitOuts == { <<"[01-01 10:00] ", "fix", "\n">> }
TimeOuts == { <<"2024-01-01 10:00:00">> }

\* fs.existsSync(filePath) and fs.existsSync(`${filePath}/.git`)
\* variant: the path is taken to exist without looking
M_PathExists(kind) == kind \in Kinds
PathExists(kind) == kind # "missing"
\* variant: the .git directory is taken to exist without looking
M_GitDirExists(kind) == kind \in Kinds
GitDirExists(kind) == kind = "repo"

\* ---------------------------------------------------------- updateGitPlugin
\* '路径不存在' and '该路径不是一个git仓库'
PathMissingMsg == <<"path does not exist">>
NotRepoMsg == <<"path is not a git repository">>
\* line 396
PullFailedMsg(e) ==
  <<"\n", "update ", "failed", "\n", "error: ">> \o OrElse(e.stack, e.message)
    \o <<"\n", "fix the error and retry or run #force-update">>
UpdatedMsg(embedded) == <<"\n", "update ", "success", "\n", "changelog: ">> \o embedded

GitFailed(data) == [RetBase EXCEPT !.status = "failed", !.data = data]
\* catch (lines 412-415)
updateGitPluginCatch(e) == [RetBase EXCEPT !.status = "failed", !.dataErr = e]

\* `${data}` where data is a string or an Error
DataText(v) ==
  IF v.dataErr = NoErr THEN Interp(v.data)
  ELSE IF v.dataErr.kind = "null" THEN <<"null">>
  ELSE IF v.dataErr.kind = "TypeError" THEN <<"TypeError: ">> \o v.dataErr.message
  ELSE <<"Error: ">> \o v.dataErr.message

\* lines 438-444
GitLine(name, v) ==
  IF v.status = "ok" THEN <<"[", name, "]", "[update ", "success", "] ">> \o DataText(v)
  ELSE <<"[", name, "]", "[update ", "failed", "] ">> \o DataText(v)

\* lines 378-390: the part of updateGitPlugin that runs before its first await
GitStart(fn, name, kind, c) ==
  LET t == [NewTask(fn, name, "latest") EXCEPT !.gcmd = c] IN
  IF ~PathExists(kind) THEN [t EXCEPT !.pc = "done", !.res = GitFailed(PathMissingMsg)]
  ELSE IF ~GitDirExists(kind) THEN [t EXCEPT !.pc = "done", !.res = GitFailed(NotRepoMsg)]
  ELSE [t EXCEPT !.pc = "hash1", !.timer = "armed"]

AllDone(ts) == \A j \in DOMAIN ts : ts[j].pc = "done"

\* variant: a failed update rejects its callback, so its line is never pushed
M_GitFinishDrop(i, t, v) ==
  LET nt == [tasks EXCEPT ![i] = [t EXCEPT !.pc = "done", !.res = v]]
      nr == IF v.status = "ok" THEN Append(result, GitLine(t.name, v)) ELSE result
  IN
  /\ tasks' = nt
  /\ IF op = "updateGitPlugin"
     THEN Return(v) /\ UNCHANGED result
     ELSE /\ result' = nr
          /\ IF AllDone(nt)
             THEN Return(TextRet(Join(nr, "\n")))
             ELSE UNCHANGED <<mpc, ret, escaped>>

\* variant: the line is put at the front of the report (unshift for push)
M_GitFinishFront(i, t, v) ==
  LET nt == [tasks EXCEPT ![i] = [t EXCEPT !.pc = "done", !.res = v]]
      nr == <<GitLine(t.name, v)>> \o result
  IN
  /\ tasks' = nt
  /\ IF op = "updateGitPlugin"
     THEN Return(v) /\ UNCHANGED result
     ELSE /\ result' = nr
          /\ IF AllDone(nt)
             THEN Return(TextRet(Join(nr, "\n")))
             ELSE UNCHANGED <<mpc, ret, escaped>>

\* invocation i of updateGitPlugin returns v
GitFinish(i, t, v) ==
  LET nt == [tasks EXCEPT ![i] = [t EXCEPT !.pc = "done", !.res = v]] IN
  /\ tasks' = nt
  /\ IF op = "updateGitPlugin"
     THEN Return(v) /\ UNCHANGED result
     ELSE IF op = "concurrent"
     THEN /\ mpc' = IF AllDone(nt) THEN "returned" ELSE mpc
          /\ UNCHANGED <<ret, escaped, result>>
     ELSE /\ result' = Append(result, GitLine(t.name, v))
          /\ IF AllDone(nt)
             THEN Return(TextRet(Join(Append(result, GitLine(t.name, v)), "\n")))
             ELSE UNCHANGED <<mpc, ret, escaped>>

GitContinue(i, t) ==
  /\ tasks' = [tasks EXCEPT ![i] = t]
  /\ UNCHANGED <<mpc, ret, escaped, result>>

gitOp == op \in {"updateGitPlugin", "updateAllGitPlugin", "concurrent"}
npmUnchanged == UNCHANGED <<pkgFile, pkg, cmd, state, batchError, updatedPkg>>

CallUpdateGitPlugin ==
  /\ op = "idle"
  /\ \E kind \in Kinds, c \in GitCmds :
       LET name == AllNames[1]
           t == GitStart("updateGitPlugin", name, kind, c)
       IN /\ op' = "updateGitPlugin"
          /\ kinds' = [kinds EXCEPT ![name] = kind]
          /\ tasks' = <<t>>
          /\ IF t.pc = "done"
             THEN Return(t.res) /\ UNCHANGED calls
             ELSE /\ mpc' = "running"
                  /\ calls' = calls (+) Call(HashCmd(TRUE), PluginPath(name))
                  /\ UNCHANGED <<ret, escaped>>
  /\ UNCHANGED <<result, head>>
  /\ npmUnchanged

\* variant: the empty listing is not treated apart
M_NoPlugins(list) == Len(list) < 0

\* line 427: if (!list.length)
NoPlugins(list) == Len(list) = 0

\* getPlugins('git', false) and lines 427-445 up to the first await of every callback
CallUpdateAllGitPlugin ==
  /\ op = "idle"
  /\ \E k \in 0..MaxGitPlugins, prefix \in BOOLEAN, c \in GitCmds,
        ks \in [GitNames -> Kinds] :
       LET list == Listing(k, prefix, "git:")
           ts == [i \in DOMAIN list |->
                    GitStart("updateAllGitPlugin", BareName(list[i], "git:"),
                             ks[BareName(list[i], "git:")], c)]
           early == SelectSeq(ts, LAMBDA t : t.pc = "done")
           lines == [j \in DOMAIN early |-> GitLine(early[j].name, early[j].res)]
       IN /\ \A j \in (k + 1)..MaxGitPlugins : ks[AllNames[j]] = "missing"
          /\ op' = "updateAllGitPlugin"
          /\ kinds' = ks
          /\ tasks' = ts
          /\ calls' = calls (+)
               BagUnion({Call(HashCmd(TRUE), PluginPath(ts[i].name)) :
                           i \in {j \in DOMAIN ts : ts[j].pc # "done"}})
          /\ IF NoPlugins(list)
             THEN Return(TextRet(NothingToUpdate)) /\ result' = <<>>
             ELSE /\ result' = lines
                  /\ IF AllDone(ts) THEN Return(TextRet(Join(lines, "\n")))
                     ELSE mpc' = "waiting" /\ UNCHANGED <<ret, escaped>>
  /\ UNCHANGED head
  /\ npmUnchanged

\* the first `git rev-parse --short HEAD` completes (lines 390-393)
UpdateGitHash1(i) ==
  /\ gitOp /\ i \in DOMAIN tasks /\ tasks[i].pc = "hash1"
  /\ LET t == tasks[i] IN
     \E r \in GitResults({<<head[t.name]>>}) :
       LET o == getHash(r) IN
       IF o.t = "throw"
       THEN /\ GitFinish(i, [t EXCEPT !.thrown = o.e], updateGitPluginCatch(o.e))
            /\ UNCHANGED calls
       ELSE /\ GitContinue(i, [t EXCEPT !.pc = "pull", !.hash = o.v, !.step = "hash"])
            /\ calls' = calls (+) Call(OrElse(t.gcmd, DefaultGitCmd), PluginPath(t.name))
  /\ UNCHANGED <<op, kinds, head>>
  /\ npmUnchanged

\* variant: a per-path lock: the update command is held back while another
\* invocation on the same path is between its two hash reads
M_UpdateGitPull(i) ==
  /\ gitOp /\ i \in DOMAIN tasks /\ tasks[i].pc = "pull"
  /\ \A j \in DOMAIN tasks :
       (j # i /\ tasks[j].name = tasks[i].name) => tasks[j].pc \notin {"pull", "hash2"}
  /\ LET t == tasks[i] IN
     \E r \in GitResults({<<>>}), h \in Hashes :
       IF r.error # NullErr
       THEN /\ h = head[t.name]
            /\ GitFinish(i, [t EXCEPT !.timer = "cleared", !.step = "pull failed",
                                      !.error = r.error],
                         GitFailed(PullFailedMsg(r.error)))
            /\ UNCHANGED <<calls, head>>
       ELSE /\ head' = [head EXCEPT ![t.name] = h]
            /\ GitContinue(i, [t EXCEPT !.pc = "hash2", !.step = "pulled", !.error = r.error,
                                        !.moved = (h # head[t.name])])
            /\ calls' = calls (+) Call(HashCmd(TRUE), PluginPath(t.name))
  /\ UNCHANGED <<op, kinds>>
  /\ UNCHANGED <<pkgFile, pkg, cmd, state, batchError, updatedPkg>>

\* variant: the error of the update command is not looked at
M_CmdFailed(error) == error # error

\* line 395: if (error)
CmdFailed(error) == error # NullErr

\* the update command completes (lines 393-402); on success it may move HEAD
UpdateGitPull(i) ==
  /\ gitOp /\ i \in DOMAIN tasks /\ tasks[i].pc = "pull"
  /\ LET t == tasks[i] IN
     \E r \in GitResults({<<>>}), h \in Hashes :
       IF CmdFailed(r.error)
       THEN /\ h = head[t.name]
            /\ GitFinish(i, [t EXCEPT !.timer = "cleared", !.step = "pull failed",
                                      !.error = r.error],
                         GitFailed(PullFailedMsg(r.error)))
            /\ UNCHANGED <<calls, head>>
       ELSE /\ head' = [head EXCEPT ![t.name] = h]
            /\ GitContinue(i, [t EXCEPT !.pc = "hash2", !.step = "pulled", !.error = r.error,
                                        !.moved = (h # head[t.name])])
            /\ calls' = calls (+) Call(HashCmd(TRUE), PluginPath(t.name))
  /\ UNCHANGED <<op, kinds>>
  /\ npmUnchanged

\* variant: the comparison inverted
M_HashUnchanged(hash, updatedHash) == hash # updatedHash

\* line 403
HashUnchanged(hash, updatedHash) == hash = updatedHash

\* the second `git rev-parse --short HEAD` completes (lines 402-410)
UpdateGitHash2(i) ==
  /\ gitOp /\ i \in DOMAIN tasks /\ tasks[i].pc = "hash2"
  /\ LET t == tasks[i] IN
     \E r \in GitResults({<<head[t.name]>>}) :
       LET o == getHash(r) IN
       IF o.t = "throw"
       THEN /\ GitFinish(i, [t EXCEPT !.thrown = o.e], updateGitPluginCatch(o.e))
            /\ UNCHANGED calls
       ELSE /\ GitContinue(i, [t EXCEPT !.pc = IF HashUnchanged(t.hash, o.v)
                                                THEN "logSame" ELSE "logNew",
                                        !.updatedHash = o.v, !.timer = "cleared",
                                        !.step = "rehashed",
                                        !.logs = t.logs + 1])
            /\ calls' = calls (+) Call(getCommitCmd(1, UNDEFINED, UNDEFINED), PluginPath(t.name))
  /\ UNCHANGED <<op, kinds, head>>
  /\ npmUnchanged

\* line 405-406: the commit log of the no-change path arrives
UpdateGitLogSame(i) ==
  /\ gitOp /\ i \in DOMAIN tasks /\ tasks[i].pc = "logSame"
  /\ LET t == tasks[i] IN
     \E r \in GitResults(CommitOuts) :
       LET o == getCommit(r) IN
       IF o.t = "throw"
       THEN GitFinish(i, [t EXCEPT !.thrown = o.e], updateGitPluginCatch(o.e))
       ELSE \* line 406: `${time}` is the timeout parameter
            GitFinish(i, t, GitFailed(
              <<"\n", "already the latest version", "\n", "last update: ",
                ToString(TimeoutSeconds), "\n", "details: ">> \o o.v))
  /\ UNCHANGED <<op, kinds, head, calls>>
  /\ npmUnchanged

\* lines 410-411: the commit log of the changed path arrives; building the
\* message calls getCommit once more and interpolates its promise
UpdateGitLogNew(i) ==
  /\ gitOp /\ i \in DOMAIN tasks /\ tasks[i].pc = "logNew"
  /\ LET t == tasks[i] IN
     \E r \in GitResults(CommitOuts) :
       LET o == getCommit(r) IN
       IF o.t = "throw"
       THEN /\ GitFinish(i, [t EXCEPT !.thrown = o.e], updateGitPluginCatch(o.e))
            /\ UNCHANGED calls
       ELSE /\ GitFinish(i, [t EXCEPT !.logs = t.logs + 1],
                         [RetBase EXCEPT !.status = "ok", !.data = UpdatedMsg(<<"[object Promise]">>),
                                         !.commit = o.v])
            /\ calls' = calls (+) Call(getCommitCmd(1, UNDEFINED, UNDEFINED), PluginPath(t.name))
  /\ UNCHANGED <<op, kinds, head>>
  /\ npmUnchanged

\* ----------------------------------------------------- checkGitPluginUpdate
\* what `git status -uno` can print
StatusOuts ==
  { <<>>,
    <<"On branch main", "\n", "Your branch is up to date with", " 'origin/main'.">>,
    <<"On branch main", "\n", "Your branch is behind '", "origin/main", "' by ", "3",
      " commits", ", and can be fast-forwarded.">>,
    <<"On branch main", "\n", "Your branch is behind '", "origin/main", "' by ", "1",
      " commit", ", and can be fast-forwarded.">>,
    <<"On branch main", "\n", "Your branch and 'origin/main' have diverged">> }

DigitValue == [d \in {"0", "1", "2", "3"} |-> CASE d = "0" -> 0 [] d = "1" -> 1
                                                [] d = "2" -> 2 [] d = "3" -> 3]

\* stdout.match(/Your branch is behind '.*' by (\d+) commits/)?.[1]
BehindMatches(out) ==
  {j \in 1..(Len(out) - 4) :
     /\ out[j] = "Your branch is behind '"
     /\ out[j + 2] = "' by "
     /\ out[j + 3] \in DOMAIN DigitValue
     /\ out[j + 4] = " commits"}

\* variant: the `|| 1` default is missing
M_BehindCount(out) ==
  IF BehindMatches(out) = {} THEN 0
  ELSE LET j == CHOOSE m \in BehindMatches(out) : \A n \in BehindMatches(out) : m <= n
       IN DigitValue[out[j + 3]]

\* Number(...) || 1   (line 280)
BehindCount(out) ==
  IF BehindMatches(out) = {} THEN 1
  ELSE LET j == CHOOSE m \in BehindMatches(out) : \A n \in BehindMatches(out) : m <= n
           v == DigitValue[out[j + 3]]
       IN IF v = 0 THEN 1 ELSE v


\* line 276: `当前版本已是最新版本\n最后更新时间：${time}`
NoUpdateData(time) == <<"already the latest version", "\n", "last update: ">> \o time

CheckGitError(e) == [RetBase EXCEPT !.status = "error", !.dataErr = e]

\* lines 251-265
CallCheckGitPluginUpdate ==
  /\ op = "idle"
  /\ \E kind \in Kinds :
       LET name == AllNames[1]
           t == NewTask("checkGitPluginUpdate", name, "latest")
       IN /\ op' = "checkGitPluginUpdate"
          /\ kinds' = [kinds EXCEPT ![name] = kind]
          /\ IF ~PathExists(kind)
             THEN /\ tasks' = <<[t EXCEPT !.pc = "done"]>>
                  /\ Return(CheckGitError(NewError(PathMissingMsg)))
                  /\ UNCHANGED calls
             ELSE IF ~GitDirExists(kind)
             THEN /\ tasks' = <<[t EXCEPT !.pc = "done"]>>
                  /\ Return(CheckGitError(NewError(NotRepoMsg)))
                  /\ UNCHANGED calls
             ELSE /\ tasks' = <<[t EXCEPT !.pc = "fetch", !.timer = "armed"]>>
                  /\ mpc' = "running"
                  /\ calls' = calls (+) Call(FetchCmd, PluginPath(name))
                  /\ UNCHANGED <<ret, escaped>>
  /\ UNCHANGED <<result, head>>
  /\ npmUnchanged

\* variant: the error of the fetch is not looked at
M_FetchFailed(error) == error # error

\* line 266: if (error)
FetchFailed(error) == error # NullErr

\* `git fetch origin` completes (lines 265-269)
CheckGitFetch ==
  /\ op = "checkGitPluginUpdate" /\ tasks[1].pc = "fetch"
  /\ LET t == tasks[1] IN
     \E r \in GitResults({<<>>}) :
       IF FetchFailed(r.error)
       THEN /\ tasks' = <<[t EXCEPT !.pc = "done", !.step = "fetch failed", !.error = r.error]>>
            /\ Return(CheckGitError(r.error))
            /\ UNCHANGED calls
       ELSE /\ tasks' = <<[t EXCEPT !.pc = "status", !.step = "fetched", !.error = r.error]>>
            /\ calls' = calls (+) Call(StatusCmd, PluginPath(t.name))
            /\ UNCHANGED <<mpc, ret, escaped>>
  /\ UNCHANGED <<op, result, kinds, head>>
  /\ npmUnchanged

\* `git status -uno` completes (lines 269-281)
CheckGitStatus ==
  /\ op = "checkGitPluginUpdate" /\ tasks[1].pc = "status"
  /\ LET t == tasks[1] IN
     \E r \in GitResults(StatusOuts) :
       IF Includes(r.stdout, "Your branch is up to date with")
       THEN /\ tasks' = <<[t EXCEPT !.pc = "time", !.timer = "cleared", !.status = r.stdout]>>
            /\ calls' = calls (+) Call(TimeCmd, PluginPath(t.name))
       ELSE /\ tasks' = <<[t EXCEPT !.pc = "log", !.timer = "cleared", !.status = r.stdout,
                                    !.count = BehindCount(r.stdout), !.logs = t.logs + 1]>>
            /\ calls' = calls (+) Call(getCommitCmd(BehindCount(r.stdout), UNDEFINED, <<"origin">>),
                                       PluginPath(t.name))
  /\ UNCHANGED <<op, mpc, ret, escaped, result, kinds, head>>
  /\ npmUnchanged

\* getTime's command completes (lines 275-276)
CheckGitTime ==
  /\ op = "checkGitPluginUpdate" /\ tasks[1].pc = "time"
  /\ LET t == tasks[1] IN
     \E r \in GitResults(TimeOuts) :
       /\ tasks' = <<[t EXCEPT !.pc = "done"]>>
       /\ Return([RetBase EXCEPT !.status = "no", !.data = NoUpdateData(getTime(r))])
  /\ UNCHANGED <<op, result, kinds, head, calls>>
  /\ npmUnchanged

\* getCommit's command completes (lines 281-287)
CheckGitLog ==
  /\ op = "checkGitPluginUpdate" /\ tasks[1].pc = "log"
  /\ LET t == tasks[1] IN
     \E r \in GitResults(CommitOuts) :
       LET o == getCommit(r) IN
       IF o.t = "throw"
       THEN /\ tasks' = <<[t EXCEPT !.pc = "done", !.thrown = o.e]>>
            /\ Return(CheckGitError(o.e))
       ELSE /\ tasks' = <<[t EXCEPT !.pc = "done"]>>
            /\ Return([RetBase EXCEPT !.status = "yes", !.data = o.v, !.count = t.count])
  /\ UNCHANGED <<op, result, kinds, head, calls>>
  /\ npmUnchanged

\* '执行超时', the data of the object the timer callback builds
TimeoutMsg == <<"execution timed out">>

\* variant: the timer callback's object becomes the result of the call
M_TimerFires(i) ==
  /\ i \in DOMAIN tasks /\ tasks[i].timer = "armed"
  /\ tasks' = [tasks EXCEPT ![i] = [tasks[i] EXCEPT !.timer = "fired", !.pc = "done",
                                                     !.res = GitFailed(TimeoutMsg)]]
  /\ Return(GitFailed(TimeoutMsg))
  /\ UNCHANGED <<op, pkgFile, pkg, cmd, state, result, batchError, updatedPkg,
                 calls, kinds, head>>

\* the setTimeout callback runs (lines 258-260, 385-387): it returns an
\* object to the timer and touches nothing
TimerFires(i) ==
  /\ i \in DOMAIN tasks /\ tasks[i].timer = "armed"
  /\ tasks' = [tasks EXCEPT ![i].timer = "fired"]
  /\ UNCHANGED <<op, mpc, ret, escaped, pkgFile, pkg, cmd, state, result, batchError, updatedPkg,
                 calls, kinds, head>>

\* ------------------------------------------------- the report sort alone
\* a report entry as lines 209 and 211 build it
SuccessEntry(i) == SuccessMsg((AllNames \o <<HostName>>)[i], <<"1.0.0">>, <<"1.0.1">>)
FailureEntry(i) == ManualHint((AllNames \o <<HostName>>)[i], <<"1.0.1">>)
SortInit ==
  /\ op = "sort"
  /\ mpc = "batch"
  /\ ret = NoRet
  /\ escaped = NoErr
  /\ pkgFile = NoManifest
  /\ pkg = NoManifest
  /\ cmd = <<>>
  /\ state = <<>>
  /\ result \in
       UNION { {[i \in 1..n |-> IF i \in S THEN SuccessEntry(i) ELSE FailureEntry(i)] :
                  S \in SUBSET (1..n)} : n \in 0..MaxEntries }
  /\ batchError = NullErr
  /\ updatedPkg = <<NoManifest>>
  /\ calls = EmptyBag
  /\ tasks = <<>>
  /\ kinds = [n \in GitNames |-> "missing"]
  /\ head = [n \in GitNames |-> "h0"]

\* lines 216-218 on the entries in `result`
SortReport ==
  /\ op = "sort" /\ mpc = "batch"
  /\ result' = ArraySort(result)
  /\ Return(TextRet(Join(ArraySort(result), "\n")))
  /\ UNCHANGED <<op, pkgFile, pkg, cmd, state, batchError, updatedPkg, calls, tasks, kinds, head>>

SortSpec == SortInit /\ [][SortReport]_vars

Next ==
  \/ CallCheckPkgUpdate
  \/ CheckPkgUpdateLocal
  \/ CheckPkgUpdateRemote
  \/ CallUpdatePkg
  \/ UpdatePkgLocal
  \/ UpdatePkgRemote
  \/ UpdatePkgUpgrade
  \/ UpdatePkgReresolve
  \/ CallUpdateAllPkg
  \/ \E i \in 1..(MaxNpmPlugins + 1) : UpdateAllPkgLocal(i)
  \/ \E i \in 1..(MaxNpmPlugins + 1) : UpdateAllPkgRemote(i)
  \/ UpdateAllPkgBatch
  \/ CallUpdateGitPlugin
  \/ CallUpdateAllGitPlugin
  \/ \E i \in 1..MaxGitPlugins : UpdateGitHash1(i)
  \/ \E i \in 1..MaxGitPlugins : UpdateGitPull(i)
  \/ \E i \in 1..MaxGitPlugins : UpdateGitHash2(i)
  \/ \E i \in 1..MaxGitPlugins : UpdateGitLogSame(i)
  \/ \E i \in 1..MaxGitPlugins : UpdateGitLogNew(i)
  \/ CallCheckGitPluginUpdate
  \/ CheckGitFetch
  \/ CheckGitStatus
  \/ CheckGitTime
  \/ CheckGitLog
  \/ \E i \in 1..MaxGitPlugins : TimerFires(i)

Spec == Init /\ [][Next]_vars

\* ------------------------- two calls of updateGitPlugin on the same path
\* nothing in updateGitPlugin keeps a second call on the same path from
\* starting while the first is in flight
CallConcurrentFirst ==
  /\ op = "idle"
  /\ \E c \in GitCmds :
       LET name == AllNames[1]
           t == GitStart("updateGitPlugin", name, "repo", c)
       IN /\ op' = "concurrent"
          /\ mpc' = "waiting"
          /\ kinds' = [kinds EXCEPT ![name] = "repo"]
          /\ tasks' = <<t>>
          /\ calls' = calls (+) Call(HashCmd(TRUE), PluginPath(name))
  /\ UNCHANGED <<ret, escaped, result, head>>
  /\ npmUnchanged

CallConcurrentSecond ==
  /\ op = "concurrent" /\ Len(tasks) = 1 /\ tasks[1].pc # "done"
  /\ LET name == tasks[1].name
         t == GitStart("updateGitPlugin", name, kinds[name], tasks[1].gcmd)
     IN /\ tasks' = Append(tasks, t)
        /\ calls' = calls (+) Call(HashCmd(TRUE), PluginPath(name))
  /\ UNCHANGED <<op, mpc, ret, escaped, result, kinds, head>>
  /\ npmUnchanged

RaceNext ==
  \/ CallConcurrentFirst
  \/ CallConcurrentSecond
  \/ \E i \in 1..2 : UpdateGitHash1(i)
  \/ \E i \in 1..2 : UpdateGitPull(i)
  \/ \E i \in 1..2 : UpdateGitHash2(i)
  \/ \E i \in 1..2 : UpdateGitLogSame(i)
  \/ \E i \in 1..2 : UpdateGitLogNew(i)
  \/ \E i \in 1..2 : TimerFires(i)

RaceSpec == Init /\ [][RaceNext]_vars

\* ------------------------------------------- the exported helpers alone
\* getCommit, getHash, getTime, getPkgVersion and getRemotePkgVersion are
\* exported and can be called on their own; a helper returns a text
\* (Return) or throws (Escape)
CallGetCommit ==
  /\ op = "idle"
  /\ \E count \in {1, 2},
        hash \in {UNDEFINED, EmptyStr, <<"h0">>},
        branch \in {UNDEFINED, EmptyStr, <<"origin">>} :
       LET name == AllNames[1] IN
       /\ op' = "getCommit"
       /\ mpc' = "running"
       /\ tasks' = <<[NewTask("getCommit", name, "latest") EXCEPT
                        !.pc = "run", !.count = count, !.hash = hash, !.branch = branch]>>
       /\ calls' = calls (+) Call(getCommitCmd(count, hash, branch), PluginPath(name))
  /\ UNCHANGED <<ret, escaped, pkgFile>>
  /\ batchUnchanged
  /\ gitUnchanged

GetCommitDone ==
  /\ op = "getCommit" /\ tasks[1].pc = "run"
  /\ \E r \in GitResults(CommitOuts) :
       LET o == getCommit(r) IN
       /\ tasks' = <<[tasks[1] EXCEPT !.pc = "done", !.run = r, !.thrown = o.e]>>
       /\ IF o.t = "throw" THEN Escape(o.e) ELSE Return(TextRet(o.v))
  /\ UNCHANGED <<op, pkgFile, calls>>
  /\ batchUnchanged
  /\ gitUnchanged

CallGetHash ==
  /\ op = "idle"
  /\ \E short \in BOOLEAN :
       LET name == AllNames[1] IN
       /\ op' = "getHash"
       /\ mpc' = "running"
       /\ tasks' = <<[NewTask("getHash", name, "latest") EXCEPT !.pc = "run", !.short = short]>>
       /\ calls' = calls (+) Call(HashCmd(short), PluginPath(name))
  /\ UNCHANGED <<ret, escaped, pkgFile>>
  /\ batchUnchanged
  /\ gitUnchanged

GetHashDone ==
  /\ op = "getHash" /\ tasks[1].pc = "run"
  /\ \E r \in GitResults({<<h>> : h \in Hashes} \cup {<<>>}) :
       LET o == getHash(r) IN
       /\ tasks' = <<[tasks[1] EXCEPT !.pc = "done", !.run = r, !.thrown = o.e]>>
       /\ IF o.t = "throw" THEN Escape(o.e) ELSE Return(TextRet(o.v))
  /\ UNCHANGED <<op, pkgFile, calls>>
  /\ batchUnchanged
  /\ gitUnchanged

CallGetTime ==
  /\ op = "idle"
  /\ LET name == AllNames[1] IN
       /\ op' = "getTime"
       /\ mpc' = "running"
       /\ tasks' = <<[NewTask("getTime", name, "latest") EXCEPT !.pc = "run"]>>
       /\ calls' = calls (+) Call(TimeCmd, PluginPath(name))
  /\ UNCHANGED <<ret, escaped, pkgFile>>
  /\ batchUnchanged
  /\ gitUnchanged

GetTimeDone ==
  /\ op = "getTime" /\ tasks[1].pc = "run"
  /\ \E r \in GitResults(TimeOuts \cup {<<>>}) :
       /\ tasks' = <<[tasks[1] EXCEPT !.pc = "done", !.run = r]>>
       /\ Return(TextRet(getTime(r)))
  /\ UNCHANGED <<op, pkgFile, calls>>
  /\ batchUnchanged
  /\ gitUnchanged

CallGetPkgVersion ==
  /\ op = "idle"
  \* the manifests include one that declares the name in all three maps,
  \* with three different texts
  /\ \E name \in PkgNames,
        f \in InitialManifests \cup
               { Manifest(ConstMap(<<"1.0.0">>), ConstMap(<<"1.0.1">>),
                          ConstMap(<<"workspace:*">>)) } :
       /\ op' = "getPkgVersion"
       /\ mpc' = "running"
       /\ pkgFile' = f
       /\ tasks' = <<[NewTask("getPkgVersion", name, "latest") EXCEPT !.pc = "run"]>>
       /\ calls' = calls (+) Call(ListCmd(name), NoCwd)
  /\ UNCHANGED <<ret, escaped>>
  /\ batchUnchanged
  /\ gitUnchanged

GetPkgVersionDone ==
  /\ op = "getPkgVersion" /\ tasks[1].pc = "run"
  /\ LET t == tasks[1] IN
     \E r \in RunnerResults(ListOuts(t.name)) :
       LET o == getPkgVersion(t.name, r, pkgFile) IN
       /\ tasks' = <<[t EXCEPT !.pc = "done", !.run = r, !.thrown = o.e, !.via = o.via]>>
       /\ IF o.t = "throw" THEN Escape(o.e) ELSE Return(TextRet(o.v))
  /\ UNCHANGED <<op, pkgFile, calls>>
  /\ batchUnchanged
  /\ gitUnchanged

CallGetRemotePkgVersion ==
  /\ op = "idle"
  /\ \E name \in PkgNames, tag \in {"latest", "beta"} :
       /\ op' = "getRemotePkgVersion"
       /\ mpc' = "running"
       /\ tasks' = <<[NewTask("getRemotePkgVersion", name, tag) EXCEPT !.pc = "run"]>>
       /\ calls' = calls (+) Call(ShowCmd(name, tag), NoCwd)
  /\ UNCHANGED <<ret, escaped, pkgFile>>
  /\ batchUnchanged
  /\ gitUnchanged

GetRemotePkgVersionDone ==
  /\ op = "getRemotePkgVersion" /\ tasks[1].pc = "run"
  /\ LET t == tasks[1] IN
     \E r \in RunnerResults(ShowOuts \cup { <<"npm ERR! ", "extraneous">> }) :
       LET o == getRemotePkgVersion(t.name, r) IN
       /\ tasks' = <<[t EXCEPT !.pc = "done", !.run = r, !.thrown = o.e]>>
       /\ IF o.t = "throw" THEN Escape(o.e) ELSE Return(TextRet(o.v))
  /\ UNCHANGED <<op, pkgFile, calls>>
  /\ batchUnchanged
  /\ gitUnchanged

HelperNext ==
  \/ CallGetCommit
  \/ GetCommitDone
  \/ CallGetHash
  \/ GetHashDone
  \/ CallGetTime
  \/ GetTimeDone
  \/ CallGetPkgVersion
  \/ GetPkgVersionDone
  \/ CallGetRemotePkgVersion
  \/ GetRemotePkgVersionDone

HelperSpec == Init /\ [][HelperNext]_vars

\* ================================================================ claims
IsSuccessEntry(line) == Includes(line, "success")
\* the batch command of updateAllPkg among the commands passed to the runner
BatchCalls == {c \in BagToSet(calls) : c.cmd[1] = "pnpm up"}

\* C1: none of the six entry points lets an exception escape: whatever the
\* runner returns, the call ends by returning a value, never by rejecting.
C1_NoExceptionEscapes == mpc # "rejected" /\ escaped = NoErr

\* C2: when local and remote both resolve, checkPkgUpdate returns 'no' with
\* the local version iff the two texts are equal and 'yes' with both iff they
\* differ, also when the local version was read from the manifest.
C2_CheckPkgUpdateCompares ==
  (op = "checkPkgUpdate" /\ tasks[1].step = "remote") =>
    /\ mpc = "returned"
    /\ ret.status \in {"yes", "no"}
    /\ (ret.status = "no") <=> (tasks[1].local = tasks[1].remote)
    /\ ret.local = tasks[1].local
    /\ ret.status = "yes" => ret.remote = tasks[1].remote
    /\ ret.status = "no" => ret.remote = UNDEFINED

C2_Witness ==
  /\ op = "checkPkgUpdate" /\ mpc = "returned"
  /\ tasks[1].via = "manifest"
  /\ ret.status = "no" /\ ret.local = <<"1.0.0">>

\* C3: when local or remote resolution throws, checkPkgUpdate returns
\* {status: 'error', error} with the thrown value, never 'yes' or 'no', and
\* its promise never rejects.
C3_CheckPkgUpdateCatches ==
  op = "checkPkgUpdate" =>
    /\ mpc # "rejected"
    /\ tasks[1].thrown # NoErr =>
         /\ mpc = "returned"
         /\ ret.status = "error"
         /\ ret.error = tasks[1].thrown

C3_Witness ==
  /\ op = "checkPkgUpdate" /\ mpc = "returned"
  /\ tasks[1].step = "local"
  /\ tasks[1].thrown = NullErr
  /\ ret.status = "error"

\* C4: when the resolved local version equals the resolved remote version,
\* updatePkg returns 'failed' with the no-update message and the runner has
\* received the two resolution commands and nothing else.
C4_NoUpgradeWhenCurrent ==
  (op = "updatePkg" /\ tasks[1].step # "called" /\ tasks[1].step # "local"
     /\ tasks[1].local = tasks[1].remote) =>
    /\ mpc = "returned"
    /\ ret.status = "failed"
    /\ ret.data = NoUpdateMsg(tasks[1].name, tasks[1].local, tasks[1].remote)
    /\ calls = Call(ListCmd(tasks[1].name), NoCwd)
                 (+) Call(ShowCmd(tasks[1].name, tasks[1].tag), NoCwd)
    /\ Calls(UpCmd(tasks[1].name, tasks[1].remote), NoCwd) = 0

C4_Witness ==
  /\ op = "updatePkg" /\ mpc = "returned"
  /\ tasks[1].step = "remote"
  /\ tasks[1].local = <<"1.0.1">> /\ tasks[1].remote = <<"1.0.1">>
  /\ ret.status = "failed"

\* C5: updatePkg returns 'ok' only if the version re-resolved after the
\* upgrade command equals the remote version fetched before it; when the
\* command reported no error and the re-resolved version differs, it returns
\* 'failed' with the manual-update hint.
C5_OkOnlyWhenVerified ==
  (op = "updatePkg" /\ mpc = "returned") =>
    /\ ret.status = "ok" =>
         /\ tasks[1].step = "reresolved"
         /\ tasks[1].updated = tasks[1].remote
         /\ Calls(UpCmd(tasks[1].name, tasks[1].remote), NoCwd) = 1
    /\ (tasks[1].step = "reresolved" /\ tasks[1].updated # tasks[1].remote) =>
         /\ ret.status = "failed"
         /\ ret.data = ManualHint(tasks[1].name, tasks[1].remote)

C5_Witness ==
  /\ op = "updatePkg" /\ mpc = "returned"
  /\ tasks[1].step = "reresolved"
  /\ tasks[1].remote = <<"1.0.1">> /\ tasks[1].updated = <<"1.0.0">>
  /\ ret.status = "failed"

\* C6: when every package updateAllPkg checks has local equal to remote, it
\* returns exactly the nothing-to-update text and no batch command has been
\* passed to the runner.
C6_NothingOutdated ==
  (op = "updateAllPkg"
     /\ \A i \in DOMAIN tasks :
          tasks[i].step = "remote" /\ tasks[i].local = tasks[i].remote) =>
    /\ mpc = "returned"
    /\ ret = TextRet(NothingToUpdate)
    /\ BatchCalls = {}

C6_Witness ==
  /\ op = "updateAllPkg" /\ mpc = "returned"
  /\ Len(tasks) = 2
  /\ \A i \in DOMAIN tasks :
       tasks[i].step = "remote" /\ tasks[i].local = tasks[i].remote
  /\ ret.data = NothingToUpdate

\* both HEAD hashes of an updateGitPlugin invocation were read
BothRead(t) == t.step = "rehashed"

\* C7 as stated: updateGitPlugin returns 'ok' iff the hash read before the
\* update command differs from the hash read after it.
C7_OkIffHashesDiffer ==
  \A i \in DOMAIN tasks :
    (tasks[i].fn \in {"updateGitPlugin", "updateAllGitPlugin"} /\ tasks[i].pc = "done") =>
      ((tasks[i].res.status = "ok") <=> (BothRead(tasks[i]) /\ tasks[i].hash # tasks[i].updatedHash))

\* C7 amended: updateGitPlugin returns 'ok' iff both hashes were read, they
\* differ, and the commit-log command run after the second read reported no
\* error; when that command fails the result is 'failed' although the hashes
\* differ.
C7_OkIffHashesDifferAndLogRead ==
  \A i \in DOMAIN tasks :
    (tasks[i].fn \in {"updateGitPlugin", "updateAllGitPlugin"} /\ tasks[i].pc = "done") =>
      /\ (tasks[i].res.status = "ok") <=>
           (BothRead(tasks[i]) /\ tasks[i].hash # tasks[i].updatedHash
              /\ tasks[i].thrown = NoErr)
      /\ tasks[i].res.status \in {"ok", "failed"}

C7_Witness ==
  /\ op = "updateGitPlugin" /\ mpc = "returned"
  /\ BothRead(tasks[1])
  /\ tasks[1].hash = <<"h0">> /\ tasks[1].updatedHash = <<"h1">>
  /\ tasks[1].thrown = ExecFailed
  /\ ret.status = "failed"

\* C8: updateAllGitPlugin over N >= 1 plugins returns only when every
\* per-plugin update has ended, and its report then holds exactly N entries,
\* one for each listed plugin, whichever of the updates failed.
C8_OneEntryPerPlugin ==
  (op = "updateAllGitPlugin" /\ mpc = "returned" /\ Len(tasks) >= 1) =>
    /\ AllDone(tasks)
    /\ Len(result) = Len(tasks)
    /\ ret.status = "text" /\ ret.data = Join(result, "\n")
    /\ Cardinality({k \in DOMAIN ret.data : ret.data[k] = "[update "}) = Len(tasks)
    /\ \A i \in DOMAIN tasks :
         Cardinality({j \in DOMAIN result :
                        result[j] = GitLine(tasks[i].name, tasks[i].res)}) = 1

C8_Witness ==
  /\ op = "updateAllGitPlugin" /\ mpc = "returned"
  /\ Len(tasks) = 2
  /\ kinds[tasks[1].name] = "missing"
  /\ tasks[1].res.status = "failed" /\ tasks[2].res.status = "ok"
  /\ Len(result) = 2

\* C9 as stated: the report of updateAllGitPlugin lists the outcomes in the
\* order the registry listed the plugins.
C9_ListingOrder ==
  (op = "updateAllGitPlugin" /\ mpc = "returned") =>
    \A j \in DOMAIN result : result[j] = GitLine(tasks[j].name, tasks[j].res)

\* C9 amended: the report lists the outcomes in the order in which the
\* per-plugin updates end: each update that ends puts its line after the
\* lines already there, and the returned text is those lines joined.
C9_CompletionOrder ==
  [][op = "updateAllGitPlugin" =>
       /\ \A i \in DOMAIN tasks :
            (tasks[i].pc # "done" /\ tasks'[i].pc = "done") =>
              result' = Append(result, GitLine(tasks'[i].name, tasks'[i].res))
       /\ (mpc # "returned" /\ mpc' = "returned") => ret'.data = Join(result', "\n")]_vars

C9_Witness ==
  /\ op = "updateAllGitPlugin" /\ mpc = "returned"
  /\ Len(tasks) = 2 /\ Len(result) = 2
  /\ tasks[1].name # tasks[2].name
  /\ result[1] = GitLine(tasks[2].name, tasks[2].res)
  /\ result[2] = GitLine(tasks[1].name, tasks[1].res)

\* C10: in the report returned after a successful batch command every
\* success entry comes before every failure entry, whatever the number and
\* the arrangement of the entries before the sort.
C10_SuccessBeforeFailure ==
  (op \in {"sort", "updateAllPkg"} /\ mpc = "returned") =>
    /\ \A i, j \in DOMAIN result :
         i < j => ~(Includes(result[i], "failed") /\ IsSuccessEntry(result[j]))
    /\ op = "sort" => ret.data = Join(result, "\n")

C10_Witness ==
  /\ op = "sort" /\ mpc = "returned"
  /\ Len(result) = MaxEntries
  /\ result[1] = SuccessEntry(4) /\ result[2] = SuccessEntry(2)
  /\ result[3] = FailureEntry(1) /\ result[4] = FailureEntry(3)

\* a callback of updateAllPkg that resolved both versions and found them different
Outdated(t) == t.step = "remote" /\ t.local # t.remote
\* the callbacks of updateAllPkg that rejected
RejectedTasks == {i \in DOMAIN tasks : tasks[i].pc = "rejected"}

\* C11 as stated: a throw while resolving one package is swallowed for that
\* package alone: once the other packages are resolved, the outdated ones
\* among them are put in the batch command passed to the runner.
C11_ThrowSwallowedPerPackage ==
  (op = "updateAllPkg" /\ RejectedTasks # {}
     /\ (\A j \in DOMAIN tasks : tasks[j].pc \in {"rejected", "done"})
     /\ (\E k \in DOMAIN tasks : Outdated(tasks[k]))) =>
    BatchCalls # {}

\* C11 amended: the first throw of a per-package resolution ends the
\* aggregate wait: updateAllPkg is in its catch block at once, which returns
\* the thrown value's message (the generic text when it has none) or rejects
\* when the thrown value is null; no batch command is passed to the runner
\* and no package is reported, although the other callbacks run on.
C11_FirstThrowEndsTheBatch ==
  (op = "updateAllPkg" /\ RejectedTasks # {}) =>
    /\ mpc \in {"returned", "rejected"}
    /\ BatchCalls = {}
    /\ result = <<>>
    /\ mpc = "returned" =>
         \E i \in RejectedTasks :
           /\ tasks[i].thrown # NullErr
           /\ ret = TextRet(IF Truthy(tasks[i].thrown.message)
                            THEN tasks[i].thrown.message ELSE SeeLogs)
    /\ mpc = "rejected" => \E i \in RejectedTasks : tasks[i].thrown = NullErr

C11_Witness ==
  /\ op = "updateAllPkg" /\ mpc = "returned"
  /\ Len(tasks) = 2
  /\ tasks[1].pc = "rejected" /\ tasks[1].thrown = NotInstalled(tasks[1].name)
  /\ tasks[2].pc = "done" /\ Outdated(tasks[2])
  /\ Len(cmd) = 2
  /\ BatchCalls = {}

\* the callbacks of updateAllPkg whose package is planned for the batch update
Planned == {i \in DOMAIN tasks : Outdated(tasks[i])}

\* C12: when the batch command reports an error, the report of updateAllPkg
\* is a header giving the number of planned packages followed by one failure
\* entry per planned package, each with the manual-retry hint naming that
\* package's remote version; it holds no success entry, and the manifest has
\* not been read again.
C12_BatchErrorReport ==
  (op = "updateAllPkg" /\ batchError \notin {NoErr, NullErr}) =>
    /\ mpc = "returned"
    /\ Len(result) = 1 + Cardinality(Planned)
    /\ result[1] = FailedHeader(Cardinality(Planned))
    /\ \A i \in Planned :
         Cardinality({j \in 2..Len(result) :
                        result[j] = ManualHint(tasks[i].name, tasks[i].remote)}) = 1
    /\ \A j \in DOMAIN result : ~IsSuccessEntry(result[j])
    /\ ret = TextRet(Join(result, "\n"))
    /\ updatedPkg = <<>>

C12_Witness ==
  /\ op = "updateAllPkg" /\ mpc = "returned"
  /\ batchError = ExecFailed
  /\ Cardinality(Planned) = 2
  /\ Len(result) = 3
  /\ updatedPkg = <<>>

\* C13: checkGitPluginUpdate on a path that does not exist returns
\* {status: 'error', data: Error('path does not exist')}, and on a path
\* without a .git directory {status: 'error', data: Error('not a git
\* repository')}; in both cases no command has been passed to the runner and
\* no timer has been armed.
C13_CheckGitPathGuards ==
  (op = "checkGitPluginUpdate" /\ kinds[tasks[1].name] # "repo") =>
    /\ mpc = "returned"
    /\ ret.status = "error"
    /\ ret.dataErr = NewError(IF kinds[tasks[1].name] = "missing"
                              THEN PathMissingMsg ELSE NotRepoMsg)
    /\ calls = EmptyBag
    /\ tasks[1].timer = "none"

C13_Witness ==
  /\ op = "checkGitPluginUpdate" /\ mpc = "returned"
  /\ kinds[tasks[1].name] = "missing"
  /\ ret.status = "error" /\ ret.dataErr.message = PathMissingMsg
  /\ calls = EmptyBag

\* C14: updateGitPlugin on a path that does not exist, or without a .git
\* directory, returns status 'failed' (never 'error') with the matching
\* message as data; neither the hash query nor the update command has been
\* passed to the runner for that path.
C14_UpdateGitPathGuards ==
  \A i \in DOMAIN tasks :
    (gitOp /\ kinds[tasks[i].name] # "repo") =>
      /\ tasks[i].pc = "done"
      /\ tasks[i].res = [RetBase EXCEPT
                           !.status = "failed",
                           !.data = IF kinds[tasks[i].name] = "missing"
                                    THEN PathMissingMsg ELSE NotRepoMsg]
      /\ op = "updateGitPlugin" => (mpc = "returned" /\ ret = tasks[i].res)
      /\ \A c \in BagToSet(calls) : c.cwd # PluginPath(tasks[i].name)
      /\ tasks[i].timer = "none"

C14_Witness ==
  /\ op = "updateGitPlugin" /\ mpc = "returned"
  /\ kinds[tasks[1].name] = "nogit"
  /\ ret.status = "failed" /\ ret.data = NotRepoMsg
  /\ calls = EmptyBag

\* C15: when the registry lists no git plugin, updateAllGitPlugin returns
\* exactly the nothing-to-update text; updateGitPlugin is not invoked and no
\* command reaches the runner.
C15_NoGitPlugins ==
  (op = "updateAllGitPlugin" /\ Len(tasks) = 0) =>
    /\ mpc = "returned"
    /\ ret = TextRet(NothingToUpdate)
    /\ calls = EmptyBag
    /\ result = <<>>

C15_Witness ==
  /\ op = "updateAllGitPlugin" /\ mpc = "returned"
  /\ tasks = <<>>
  /\ ret.data = NothingToUpdate

\* how often the token sequence `part` occurs in `text`
Occurrences(text, part) ==
  Cardinality({j \in 1..(Len(text) - Len(part) + 1) :
                 SubSeq(text, j, j + Len(part) - 1) = part})

\* C16: the batch command is passed to the runner at most once and only
\* after every per-package resolution has completed; its arguments hold
\* exactly one 'name@remote' entry for each checked package whose local
\* version differs from the remote one and none for an up-to-date package,
\* in whatever order the resolutions complete.
C16_BatchCommand ==
  op = "updateAllPkg" =>
    /\ Cardinality(BatchCalls) <= 1
    /\ \A c \in BatchCalls :
         /\ CopiesIn(c, calls) = 1
         /\ \A i \in DOMAIN tasks : tasks[i].pc = "done"
         /\ Planned # {}
         /\ Occurrences(c.cmd, <<" ">>) = Cardinality(Planned)
         /\ \A i \in DOMAIN tasks :
              /\ Outdated(tasks[i]) =>
                   Occurrences(c.cmd, <<" ">> \o PkgAt(tasks[i].name, tasks[i].remote)) = 1
              /\ Occurrences(c.cmd, <<" ", tasks[i].name, "@">>) =
                   (IF Outdated(tasks[i]) THEN 1 ELSE 0)

\* the second listed package completed first and is the first argument
C16_Witness ==
  /\ op = "updateAllPkg" /\ mpc = "batch"
  /\ Len(tasks) = 2 /\ Cardinality(Planned) = 2
  /\ cmd[2] = PkgAt(tasks[2].name, tasks[2].remote)
  /\ cmd[3] = PkgAt(tasks[1].name, tasks[1].remote)
  /\ \E c \in BatchCalls :
       c.cmd = <<"pnpm up", " ">> \o cmd[2] \o <<" ">> \o cmd[3]

\* the report entries that open with `[name]`
EntriesOf(name) ==
  {j \in DOMAIN result : Len(result[j]) >= 3 /\ SubSeq(result[j], 1, 3) = <<"[", name, "]">>}

\* C17: when the batch command reports no error, each planned package is
\* reported as a success exactly when the version declared for it in the
\* freshly re-read manifest (dependencies, else devDependencies, else
\* peerDependencies) equals the remote version resolved before the update,
\* and as a failure otherwise; every planned package gets exactly one entry.
C17_BatchReportEntries ==
  (op = "updateAllPkg" /\ mpc = "returned" /\ batchError = NullErr) =>
    /\ updatedPkg = <<pkgFile>>
    /\ Len(result) = Cardinality(Planned)
    /\ ret = TextRet(Join(result, "\n"))
    /\ \A i \in Planned :
         LET m == updatedPkg[1]
             name == tasks[i].name
             declared ==
               IF Truthy(DeclOf(m.dependencies, name)) THEN DeclOf(m.dependencies, name)
               ELSE IF Truthy(DeclOf(m.devDependencies, name))
                    THEN DeclOf(m.devDependencies, name)
                    ELSE DeclOf(m.peerDependencies, name)
         IN /\ Cardinality(EntriesOf(name)) = 1
            /\ \A j \in EntriesOf(name) :
                 IF declared = tasks[i].remote
                 THEN /\ result[j] = SuccessMsg(name, tasks[i].local, tasks[i].remote)
                      /\ IsSuccessEntry(result[j])
                 ELSE /\ result[j] = ManualHint(name, tasks[i].remote)
                      /\ ~IsSuccessEntry(result[j])

\* one package verified through the devDependencies fallback, one not updated
C17_Witness ==
  /\ op = "updateAllPkg" /\ mpc = "returned" /\ batchError = NullErr
  /\ Cardinality(Planned) = 2
  /\ updatedPkg[1].dependencies # Absent
  /\ \E i \in Planned :
       /\ updatedPkg[1].dependencies[tasks[i].name] = UNDEFINED
       /\ updatedPkg[1].devDependencies # Absent
       /\ IsSuccessEntry(result[1]) /\ result[1][2] = tasks[i].name
  /\ ~IsSuccessEntry(result[2])

\* a command completed and the runner reported an error for it
Errored(t) == t.error \notin {NoErr, NullErr}

\* C18: when local and remote differ and the upgrade command reports an
\* error, updatePkg returns {status: 'failed', data: <that error>} with the
\* raw error value and does not resolve the local version again.
C18_UpgradeErrorReturned ==
  (op = "updatePkg" /\ Errored(tasks[1])) =>
    /\ mpc = "returned"
    /\ ret = [RetBase EXCEPT !.status = "failed", !.dataErr = tasks[1].error]
    /\ tasks[1].local # tasks[1].remote
    /\ Calls(UpCmd(tasks[1].name, tasks[1].remote), NoCwd) = 1
    /\ Calls(ListCmd(tasks[1].name), NoCwd) = 1
    /\ tasks[1].updated = UNDEFINED

C18_Witness ==
  /\ op = "updatePkg" /\ mpc = "returned"
  /\ tasks[1].error = ExecFailed
  /\ tasks[1].local = <<"1.0.0">> /\ tasks[1].remote = <<"1.0.1">>
  /\ ret.status = "failed" /\ ret.dataErr = ExecFailed

\* C19: updateGitPlugin reads the HEAD short hash before it passes the
\* update command to the runner; when that command reports an error it
\* returns 'failed' with the diagnostic composed from the error's stack (or
\* message) and the retry hint, and does not read the hash a second time.
C19_HashThenUpdate ==
  \A i \in DOMAIN tasks :
    gitOp =>
      LET t == tasks[i]
          path == PluginPath(t.name)
          update == IF Truthy(t.gcmd) THEN t.gcmd ELSE DefaultGitCmd
      IN /\ Calls(update, path) <= 1
         /\ Calls(update, path) = 1 =>
              (t.step # "called" /\ t.hash # UNDEFINED /\ Calls(HashCmd(TRUE), path) >= 1)
         /\ Errored(t) =>
              /\ t.pc = "done"
              /\ t.res.status = "failed"
              /\ t.res.dataErr = NoErr
              /\ t.res.data = PullFailedMsg(t.error)
              /\ Occurrences(t.res.data,
                             IF Truthy(t.error.stack) THEN t.error.stack
                             ELSE t.error.message) >= 1
              /\ op = "updateGitPlugin" => (mpc = "returned" /\ ret = t.res)
              /\ Calls(HashCmd(TRUE), path) = 1
              /\ t.updatedHash = UNDEFINED

C19_Witness ==
  /\ op = "updateAllGitPlugin" /\ mpc = "returned"
  /\ Len(tasks) = 2
  /\ tasks[2].error = ExecFailed /\ tasks[2].hash = <<"h0">>
  /\ tasks[2].res.data = PullFailedMsg(ExecFailed)
  /\ Calls(DefaultGitCmd, PluginPath(tasks[2].name)) = 1
  /\ Calls(HashCmd(TRUE), PluginPath(tasks[2].name)) = 1

\* C20: on the changed-hash path of updateGitPlugin getCommit is invoked
\* exactly once and the success message embeds the log text it resolved to.
C20_LogOnceAndEmbedded ==
  \A i \in DOMAIN tasks :
    (gitOp /\ tasks[i].pc = "done" /\ tasks[i].res.status = "ok") =>
      /\ tasks[i].logs = 1
      /\ Calls(getCommitCmd(1, UNDEFINED, UNDEFINED), PluginPath(tasks[i].name)) = 1
      /\ tasks[i].res.data = UpdatedMsg(tasks[i].res.commit)

\* C21 as stated: getCommit picks its command by precedence hash, branch,
\* neither: a given hash always gives the log from that hash to HEAD.
C21_HashBeforeBranch ==
  op = "getCommit" =>
    LET t == tasks[1] IN
    calls = Call(IF Truthy(t.hash) THEN LogSince(t.hash)
                 ELSE IF Truthy(t.branch) THEN LogOfBranch(t.count, t.branch)
                 ELSE LogLast(t.count),
                 PluginPath(t.name))

\* C21 amended: the precedence is branch, hash, neither: a given branch
\* always gives the last `count` commits of that branch, also when a hash is
\* given too; the log from the hash to HEAD is asked for only when a hash and
\* no branch is given; with neither, the last `count` commits of the current
\* branch.
C21_BranchBeforeHash ==
  op = "getCommit" =>
    LET t == tasks[1] IN
    calls = Call(IF Truthy(t.branch) THEN LogOfBranch(t.count, t.branch)
                 ELSE IF Truthy(t.hash) THEN LogSince(t.hash)
                 ELSE LogLast(t.count),
                 PluginPath(t.name))

C21_Witness ==
  /\ op = "getCommit" /\ mpc = "returned"
  /\ tasks[1].hash = <<"h0">> /\ tasks[1].branch = <<"origin">> /\ tasks[1].count = 2
  /\ Calls(LogOfBranch(2, <<"origin">>), PluginPath(tasks[1].name)) = 1
  /\ Calls(LogSince(<<"h0">>), PluginPath(tasks[1].name)) = 0

\* C22: the timeout timer has no effect on control flow: the step in which
\* it fires changes nothing but the timer itself (no position of a git
\* operation, no command, no returned value), whether it fires while the
\* operations are in flight or after the return, and no result ever carries
\* the timeout message.
C22_TimerHasNoEffect ==
  [][/\ \A i \in DOMAIN tasks :
          (i \in DOMAIN tasks' /\ tasks[i].timer = "armed" /\ tasks'[i].timer = "fired") =>
            /\ tasks' = [tasks EXCEPT ![i].timer = "fired"]
            /\ UNCHANGED <<op, mpc, ret, escaped, result, calls, kinds, head>>
     /\ ret'.data # TimeoutMsg
     /\ \A i \in DOMAIN tasks' : tasks'[i].res.data # TimeoutMsg]_vars

\* the timer fired (the second hash read threw, so it was never cleared) and
\* the call returned what its catch block built
C22_Witness ==
  /\ op = "updateGitPlugin" /\ mpc = "returned"
  /\ tasks[1].timer = "fired"
  /\ tasks[1].step = "pulled" /\ tasks[1].thrown = ExecFailed
  /\ ret = [RetBase EXCEPT !.status = "failed", !.dataErr = ExecFailed]

\* C23: when `git fetch origin` reports an error, checkGitPluginUpdate
\* returns {status: 'error', data: <that error>}; the fetch is the only
\* command passed to the runner: no status query, no log command.
C23_FetchError ==
  (op = "checkGitPluginUpdate" /\ Errored(tasks[1])) =>
    /\ mpc = "returned"
    /\ ret = [RetBase EXCEPT !.status = "error", !.dataErr = tasks[1].error]
    /\ calls = Call(FetchCmd, PluginPath(tasks[1].name))
    /\ Calls(StatusCmd, PluginPath(tasks[1].name)) = 0
    /\ tasks[1].logs = 0

C23_Witness ==
  /\ op = "checkGitPluginUpdate" /\ mpc = "returned"
  /\ tasks[1].error = ExecFailed
  /\ ret.status = "error" /\ ret.dataErr = ExecFailed
  /\ Calls(FetchCmd, PluginPath(tasks[1].name)) = 1

\* the N of "behind '...' by N commits" in a status output, 1 when there is none
BehindN(out) ==
  LET ns == {DigitValue[out[j + 3]] : j \in BehindMatches(out)} \ {0}
  IN IF ns = {} THEN 1 ELSE CHOOSE v \in ns : \A w \in ns : v <= w

\* checkGitPluginUpdate returned after a fetch without error
CheckedAfterFetch ==
  op = "checkGitPluginUpdate" /\ mpc = "returned" /\ tasks[1].step = "fetched"

\* C24 as stated: after a successful fetch the result is 'no' with the
\* last-commit time exactly when the status output has the up-to-date
\* marker, and otherwise 'yes' with count = N (1 when unparsable), count >= 1,
\* after asking for exactly `count` log entries of the upstream branch.
C24_StatusDecides ==
  CheckedAfterFetch =>
    LET out == tasks[1].status
        path == PluginPath(tasks[1].name)
    IN IF Includes(out, "Your branch is up to date with")
       THEN /\ ret.status = "no"
            /\ ret.data \in {NoUpdateData(t) : t \in TimeOuts \cup {TimeFailedMsg}}
            /\ tasks[1].logs = 0
       ELSE /\ ret.status = "yes"
            /\ ret.count = BehindN(out) /\ ret.count >= 1
            /\ Calls(LogOfBranch(BehindN(out), <<"origin">>), path) = 1
            /\ tasks[1].logs = 1

\* C24 amended: as stated, except that on the not-up-to-date path the
\* result is 'yes' only when the log command reports no error; when it does,
\* the result is 'error' with that error. The log command asked for is the
\* same in both cases.
C24_StatusDecidesUnlessLogFails ==
  CheckedAfterFetch =>
    LET out == tasks[1].status
        path == PluginPath(tasks[1].name)
    IN IF Includes(out, "Your branch is up to date with")
       THEN /\ ret.status = "no"
            /\ ret.data \in {NoUpdateData(t) : t \in TimeOuts \cup {TimeFailedMsg}}
            /\ Calls(TimeCmd, path) = 1
            /\ tasks[1].logs = 0
       ELSE /\ Calls(LogOfBranch(BehindN(out), <<"origin">>), path) = 1
            /\ tasks[1].logs = 1
            /\ BehindN(out) >= 1
            /\ IF tasks[1].thrown = NoErr
               THEN /\ ret.status = "yes"
                    /\ ret.count = BehindN(out)
                    /\ ret.data \in CommitOuts
               ELSE ret = [RetBase EXCEPT !.status = "error", !.dataErr = tasks[1].thrown]

\* three commits behind, and the log command failed
C24_Witness ==
  /\ CheckedAfterFetch
  /\ Includes(tasks[1].status, "3")
  /\ tasks[1].count = 3
  /\ Calls(LogOfBranch(3, <<"origin">>), PluginPath(tasks[1].name)) = 1
  /\ tasks[1].thrown = ExecFailed
  /\ ret.status = "error"

\* C25: when the runner reports an error, getHash and getCommit throw that
\* error to their caller, while getTime never throws and returns the fixed
\* failure text; when the runner reports no error each of the three returns
\* the runner's stdout.
C25_HelperErrorContracts ==
  (op \in {"getHash", "getCommit", "getTime"} /\ tasks[1].pc = "done") =>
    LET r == tasks[1].run IN
    /\ r.error = NullErr => (mpc = "returned" /\ ret = TextRet(r.stdout))
    /\ r.error # NullErr =>
         IF op = "getTime"
         THEN mpc = "returned" /\ ret = TextRet(TimeFailedMsg)
         ELSE mpc = "rejected" /\ escaped = r.error /\ ret = NoRet
    /\ op = "getTime" => (mpc = "returned" /\ escaped = NoErr)

C25_Witness ==
  /\ op = "getTime" /\ mpc = "returned"
  /\ tasks[1].run.error = ExecFailed /\ tasks[1].run.stdout = <<"2024-01-01 10:00:00">>
  /\ ret.data = TimeFailedMsg

\* 'empty' or 'extraneous' occurs in the text
Marked(text) == \E i \in DOMAIN text : text[i] \in {"empty", "extraneous"}
\* the text has a '<name>@<major.minor.patch>'
Matched(name, text) ==
  \E i \in 1..(Len(text) - 2) :
    text[i] = name /\ text[i + 1] = "@" /\ text[i + 2] \in SemverTokens
\* getPkgVersion called on its own has ended
PkgVersionEnded == op = "getPkgVersion" /\ tasks[1].pc = "done"

\* C26 as stated: getPkgVersion fails with the not-installed error whenever
\* a marker occurs in the runner's stdout or in the stack of the runner's
\* error, and whenever the runner reports another error it throws that error
\* rather than returning a version.
C26_FailsOnMarkerOrError ==
  PkgVersionEnded =>
    LET r == tasks[1].run
        inStack == r.error # NullErr /\ Marked(r.error.stack)
    IN /\ (Marked(r.stdout) \/ inStack) =>
            (mpc = "rejected" /\ escaped = NotInstalled(tasks[1].name))
       /\ (r.error # NullErr /\ ~Marked(r.stdout) /\ ~inStack) =>
            (mpc = "rejected" /\ escaped = r.error)

\* C26 amended: stdout is judged first. A marker in stdout gives the
\* not-installed error; otherwise a version printed for the name in stdout is
\* returned even when the runner reports an error; only when stdout yields
\* no version does an error count: a marker in its stack gives the
\* not-installed error and any other error is thrown as it is.
C26_FailsUnlessVersionPrinted ==
  PkgVersionEnded =>
    LET r == tasks[1].run
        name == tasks[1].name
    IN /\ Marked(r.stdout) => (mpc = "rejected" /\ escaped = NotInstalled(name))
       /\ (~Marked(r.stdout) /\ Matched(name, r.stdout)) =>
            /\ mpc = "returned"
            /\ ret.status = "text" /\ ret.data \in {<<v>> : v \in SemverTokens}
            /\ Occurrences(r.stdout, <<name, "@">> \o ret.data) >= 1
       /\ (~Marked(r.stdout) /\ ~Matched(name, r.stdout) /\ r.error # NullErr) =>
            /\ mpc = "rejected"
            /\ escaped = (IF Marked(r.error.stack) THEN NotInstalled(name) ELSE r.error)

\* stdout prints the version and the error's stack carries 'empty'
C26_Witness ==
  /\ PkgVersionEnded /\ mpc = "returned"
  /\ Matched(tasks[1].name, tasks[1].run.stdout)
  /\ tasks[1].run.error = ExecEmpty
  /\ ret.data = <<"1.0.1">>

\* the text the manifest on disk declares for the name: the first non-empty
\* one of dependencies, devDependencies, peerDependencies
FirstDeclared(name) ==
  IF Truthy(DeclOf(pkgFile.dependencies, name)) THEN DeclOf(pkgFile.dependencies, name)
  ELSE IF Truthy(DeclOf(pkgFile.devDependencies, name))
       THEN DeclOf(pkgFile.devDependencies, name)
       ELSE DeclOf(pkgFile.peerDependencies, name)

C29_NotMutuallyExcluded ==
  op = "concurrent" =>
    /\ \A i, j \in DOMAIN tasks :
         (i # j /\ tasks[i].pc \in {"pull", "hash2"} /\ tasks[j].pc = "pull") =>
           ENABLED UpdateGitPull(j)
    /\ \A i \in DOMAIN tasks :
         (tasks[i].pc = "done" /\ tasks[i].res.status = "ok") =>
           (tasks[i].step = "rehashed" /\ tasks[i].hash # tasks[i].updatedHash)

\* the other invocation's command moved HEAD between this one's two reads:
\* this one reports 'ok' although its own command changed nothing
C29_Witness ==
  /\ op = "concurrent" /\ Len(tasks) = 2
  /\ \E i, j \in DOMAIN tasks :
       /\ i # j
       /\ tasks[i].name = tasks[j].name
       /\ tasks[j].moved /\ ~tasks[i].moved
       /\ tasks[i].hash = <<"h0">> /\ tasks[i].updatedHash = <<"h1">>
       /\ tasks[i].pc = "done" /\ tasks[i].res.status = "ok"

\* C30: whenever checkGitPluginUpdate or updateGitPlugin has returned, the
\* timeout timer it armed is no longer pending, on every return path.
C30_TimerClearedOnReturn ==
  \A i \in DOMAIN tasks :
    (tasks[i].fn \in {"checkGitPluginUpdate", "updateGitPlugin", "updateAllGitPlugin"}
       /\ tasks[i].pc = "done") =>
      tasks[i].timer # "armed"

====
